---------------------------- MODULE Spec2Model ----------------------------
(***************************************************************************)
(* A model of the maze core of a-maze-in-python: the wall store            *)
(* (src/amaze/model.py) and the generation algorithms (src/mazepie/gen.py).*)
(*                                                                         *)
(* A Cell is the pair <<row, col>>, a Side one of the four strings below,  *)
(* a Wall the pair <<cell, side>>.  A CellSet (a bitarray of height*width  *)
(* bits) is the set of the positions row*width+col whose bit is set.       *)
(* Every random draw (randrange, randint, choice, sample, shuffle) is a    *)
(* nondeterministic choice over the values the draw can return.            *)
(***************************************************************************)
EXTENDS Integers, Sequences, FiniteSets, TLC

VARIABLES
    nrows,      \* Maze.__nrows
    ncols,      \* Maze.__ncols
    walls,      \* Maze.__walls: [NORTH |-> CellSet, WEST |-> CellSet]
    mod_count,  \* Maze.mod_count
    pc,         \* position of the running operation
    loc         \* the local variables of the running operation (a record)

vars == <<nrows, ncols, walls, mod_count, pc, loc>>

-----------------------------------------------------------------------------
(* Bounds of the model *)

MaxRows == 3
MaxCols == 3
\* largest number of cells of a grid, per specification
MaxCellsMaze == 4
\* longest argument list of one set_walls call, and cap of mod_count, in SpecMaze
MaxWalls == 2
MaxModCount == 3

-----------------------------------------------------------------------------
(* Geometry: Side, Cell, Wall *)

\* list(Side), in definition order
Sides == <<"WEST", "NORTH", "EAST", "SOUTH">>

SideSet == {"WEST", "NORTH", "EAST", "SOUTH"}

d_row(side) == CASE side = "WEST" -> 0 [] side = "NORTH" -> -1
                 [] side = "EAST" -> 0 [] side = "SOUTH" -> 1

d_col(side) == CASE side = "WEST" -> -1 [] side = "NORTH" -> 0
                 [] side = "EAST" -> 1 [] side = "SOUTH" -> 0

\* Side.__invert__
opp_table == [WEST |-> "EAST", EAST |-> "WEST", NORTH |-> "SOUTH", SOUTH |-> "NORTH"]

Cell(row, col) == <<row, col>>

next(cell, side) == Cell(cell[1] + d_row(side), cell[2] + d_col(side))

Wall(cell, side) == <<cell, side>>

next_cell(wall) == next(wall[1], wall[2])

-----------------------------------------------------------------------------
(* CellSet *)

position_of(cell) == cell[1] * ncols + cell[2]

num_cells == nrows * ncols

\* CellSet.__contains__
CellSet_contains(set, cell) ==
    LET p == position_of(cell) IN 0 <= p /\ p < num_cells /\ p \in set

\* CellSet.__setitem__ for a position inside the array
CellSet_setitem(set, cell, value) ==
    IF value THEN set \cup {position_of(cell)} ELSE set \ {position_of(cell)}

\* CellSet.with_initial / Maze.new_cell_set
new_cell_set(initial_value) == IF initial_value THEN 0 .. (num_cells - 1) ELSE {}

-----------------------------------------------------------------------------
(* Maze *)

\* Maze.__contains__
Maze_contains(cell) ==
    /\ 0 <= cell[1] /\ cell[1] < nrows
    /\ 0 <= cell[2] /\ cell[2] < ncols

start_cell == Cell(0, 0)

\* line 227 with the cell past the last corner
end_cell_past == Cell(nrows, ncols)

end_cell == Cell(nrows - 1, ncols - 1)

\* Maze.all_cells(from_cell), as the sequence Cell.iterate yields
all_cells(from_cell) ==
    [i \in 1 .. (num_cells - position_of(from_cell)) |->
        LET p == position_of(from_cell) + i - 1 IN Cell(p \div ncols, p % ncols)]

AllCells == {c \in (0 .. (nrows - 1)) \X (0 .. (ncols - 1)) : TRUE}

\* has_wall reading the East/South wall from the bit of the cell itself
has_wall_own_bit(wall) ==
    IF ~Maze_contains(wall[1]) THEN "IndexError"
    ELSE IF ~Maze_contains(next_cell(wall)) THEN TRUE
    ELSE CellSet_contains(walls[IF wall[2] = "EAST" \/ wall[2] = "SOUTH"
                                THEN opp_table[wall[2]] ELSE wall[2]], wall[1])

\* has_wall without the test of the grid boundary
has_wall_no_boundary(wall) ==
    IF ~Maze_contains(wall[1]) THEN "IndexError"
    ELSE IF wall[2] = "EAST" \/ wall[2] = "SOUTH"
         THEN CellSet_contains(walls[opp_table[wall[2]]], next_cell(wall))
         ELSE CellSet_contains(walls[wall[2]], wall[1])

\* Maze.has_wall on the wall sets W; "IndexError" stands for the exception
\* of __check_pos
has_wall_in(W, wall) ==
    IF ~Maze_contains(wall[1]) THEN "IndexError"
    ELSE IF ~Maze_contains(next_cell(wall)) THEN TRUE
    ELSE IF wall[2] = "EAST" \/ wall[2] = "SOUTH"
         THEN CellSet_contains(W[opp_table[wall[2]]], next_cell(wall))
         ELSE CellSet_contains(W[wall[2]], wall[1])

\* Maze.has_wall
has_wall(wall) == has_wall_in(walls, wall)

\* the body of the loop with the bit of an East or South wall written at the
\* wall's own cell instead of the neighbour
set_one_wall_own_cell(W, wall, is_present) ==
    IF ~Maze_contains(next_cell(wall)) THEN W
    ELSE IF wall[2] = "EAST" \/ wall[2] = "SOUTH"
         THEN [W EXCEPT ![opp_table[wall[2]]] =
                  CellSet_setitem(@, wall[1], is_present)]
         ELSE [W EXCEPT ![wall[2]] = CellSet_setitem(@, wall[1], is_present)]

\* the body of the loop of Maze.set_walls for one wall whose cell is in the grid
set_one_wall(W, wall, is_present) ==
    IF ~Maze_contains(next_cell(wall)) THEN W
    ELSE IF wall[2] = "EAST" \/ wall[2] = "SOUTH"
         THEN [W EXCEPT ![opp_table[wall[2]]] =
                  CellSet_setitem(@, next_cell(wall), is_present)]
         ELSE [W EXCEPT ![wall[2]] = CellSet_setitem(@, wall[1], is_present)]

RECURSIVE set_walls_loop(_, _, _, _)
set_walls_loop(W, ws, i, is_present) ==
    IF i > Len(ws) THEN [walls |-> W, raised |-> FALSE]
    ELSE IF ~Maze_contains(ws[i][1]) THEN [walls |-> W, raised |-> TRUE]
    ELSE set_walls_loop(set_one_wall(W, ws[i], is_present), ws, i + 1, is_present)

\* Maze.set_walls applied to the wall sets W: the new wall sets, and whether
\* __check_pos raised IndexError (the walls before the offending one are written)
set_walls(W, ws, is_present) == set_walls_loop(W, ws, 1, is_present)

\* Maze.reset
reset(walls_on) == [s \in {"NORTH", "WEST"} |-> new_cell_set(walls_on)]

\* Maze.walls_around; blacklist is a CellSet, the empty one standing for None
\* (neither excludes a wall)
walls_around(cell, except_sides, only_passages, blacklist) ==
    SelectSeq([i \in 1 .. 4 |-> Wall(cell, Sides[i])],
              LAMBDA w :
                  /\ w[2] \notin except_sides
                  /\ Maze_contains(next_cell(w))
                  /\ (~only_passages) \/ (has_wall(w) = FALSE)
                  /\ ~CellSet_contains(blacklist, next_cell(w)))

\* the grids of at most maxCells cells
Dims(maxCells) ==
    {d \in (1 .. MaxRows) \X (1 .. MaxCols) : d[1] * d[2] <= maxCells}

\* Maze.__init__ with valid dimensions: all walls are set
MazeInit(d) ==
    /\ nrows = d[1]
    /\ ncols = d[2]
    /\ walls = [s \in {"NORTH", "WEST"} |-> 0 .. (d[1] * d[2] - 1)]
    /\ mod_count = 0

-----------------------------------------------------------------------------
(* The wall store under arbitrary calls of reset and set_walls *)
(* A call of set_walls with n walls is the steps of its loop: the call     *)
(* with its n arguments,   one step per wall (the wall is drawn when    *)
(* the loop reaches it), and the return that adds len(walls) to mod_count. *)

\* the walls a caller may pass: cells of the grid and of the ring around it
WallInputs == {Wall(Cell(r, c), s) : r \in -1 .. nrows, c \in -1 .. ncols, s \in SideSet}

InitMaze ==
    /\ \E d \in Dims(MaxCellsMaze) : MazeInit(d)
    /\ pc = "maze"
    /\ loc = [raised |-> FALSE]

MazeReset(walls_on) ==
    /\ pc = "maze"
    /\ walls' = reset(walls_on)
    /\ loc' = [raised |-> FALSE]
    /\ UNCHANGED <<nrows, ncols, mod_count, pc>>

\* set_walls is called with n walls
MazeSetWallsCall(n, is_present) ==
    /\ pc = "maze"
    /\ mod_count + n <= MaxModCount
    /\ pc' = "set_walls"
    /\ loc' = [is_present |-> is_present, n |-> n, i |-> 0, wall |-> "None"]
    /\ UNCHANGED <<nrows, ncols, walls, mod_count>>

\* one iteration of the loop, for a wall whose cell passes __check_pos
MazeSetWallsIter(wall) ==
    /\ pc = "set_walls"
    /\ loc.i < loc.n
    /\ Maze_contains(wall[1])
    /\ walls' = set_one_wall(walls, wall, loc.is_present)
    /\ loc' = [loc EXCEPT !.i = @ + 1, !.wall = wall]
    /\ UNCHANGED <<nrows, ncols, mod_count, pc>>

\* one iteration of the loop, for a wall whose cell fails __check_pos
MazeSetWallsRaise(wall) ==
    /\ pc = "set_walls"
    /\ loc.i < loc.n
    /\ ~Maze_contains(wall[1])
    /\ pc' = "maze"
    /\ loc' = [raised |-> TRUE]
    /\ UNCHANGED <<nrows, ncols, walls, mod_count>>

\* the end of the loop
MazeSetWallsReturn ==
    /\ pc = "set_walls"
    /\ loc.i = loc.n
    /\ mod_count' = mod_count + loc.n
    /\ pc' = "maze"
    /\ loc' = [raised |-> FALSE]
    /\ UNCHANGED <<nrows, ncols, walls>>

NextMaze ==
    \/ \E walls_on \in BOOLEAN : MazeReset(walls_on)
    \/ \E n \in 0 .. MaxWalls, is_present \in BOOLEAN : MazeSetWallsCall(n, is_present)
    \/ \E wall \in WallInputs : MazeSetWallsIter(wall)
    \/ \E wall \in WallInputs : MazeSetWallsRaise(wall)
    \/ MazeSetWallsReturn

SpecMaze == InitMaze /\ [][NextMaze]_vars

Spec == SpecMaze

\* the wall of set_walls' loop variable has just been written
JustSet == pc = "set_walls" /\ loc.i > 0

\* C1: every physical wall has one stored bit: in every state reached by
\* reset and set_walls calls, a wall between two cells of the grid reads the
\* same from both of its cells, and the wall set_walls has just written reads
\* is_present from both of its cells.
C1_OneBitPerWall ==
    /\ \A c \in AllCells, s \in SideSet :
          Maze_contains(next(c, s)) =>
              has_wall(Wall(c, s)) = has_wall(Wall(next(c, s), opp_table[s]))
    /\ (JustSet /\ Maze_contains(next_cell(loc.wall))) =>
          /\ has_wall(loc.wall) = loc.is_present
          /\ has_wall(Wall(next_cell(loc.wall), opp_table[loc.wall[2]])) = loc.is_present

\* an East wall towards a cell of the grid has just been cleared, its
\* southern neighbour wall still standing
C1_Witness ==
    /\ JustSet /\ ~loc.is_present
    /\ loc.wall[2] = "EAST" /\ Maze_contains(next_cell(loc.wall))
    /\ has_wall(Wall(next_cell(loc.wall), "WEST")) = FALSE
    /\ nrows > 1 /\ ncols > 1

OutwardWalls == {w \in AllCells \X SideSet : ~Maze_contains(next_cell(w))}

\* C2 (state part): the outward wall of every edge cell reads present
BoundaryPresent == \A w \in OutwardWalls : has_wall(w) = TRUE

\* C2 (step part): the loop step of set_walls(..., is_present=False) for an
\* outward wall leaves both wall sets as they were
BoundaryClearNoOp ==
    (/\ pc = "set_walls" /\ ~loc.is_present
     /\ JustSet' /\ loc'.i = loc.i + 1
     /\ loc'.wall \in OutwardWalls) => walls' = walls

\* C2: boundary walls are always reported present, also after
\* reset(walls_on=False), and clearing one with set_walls changes no wall bit.
C2_BoundaryImmutable == [](BoundaryPresent) /\ [][BoundaryClearNoOp]_vars

\* after reset(False) cleared every bit, set_walls has just been asked to
\* clear an outward wall
C2_Witness ==
    /\ JustSet /\ ~loc.is_present
    /\ loc.wall \in OutwardWalls
    /\ walls["NORTH"] = {} /\ walls["WEST"] = {}

-----------------------------------------------------------------------------
(* What the generators are checked for *)

\* the interior walls that are down, each named once (North/West form)
OpenPassages ==
    {w \in AllCells \X {"NORTH", "WEST"} :
        Maze_contains(next_cell(w)) /\ has_wall(w) = FALSE}

\* the cells one passage away from a cell of S
Step(S) ==
    {next(c, s) : <<c, s>> \in
        {w \in S \X SideSet : Maze_contains(next_cell(w)) /\ has_wall(w) = FALSE}}

RECURSIVE Reach(_)
Reach(S) == LET T == S \cup Step(S) IN IF T = S THEN S ELSE Reach(T)

AllConnected == Reach({start_cell}) = AllCells

\* the passages form a spanning tree of the grid
SpanningTree == AllConnected /\ Cardinality(OpenPassages) = nrows * ncols - 1

\* the number of passages around a cell
Degree(c) == Cardinality({s \in SideSet : has_wall(Wall(c, s)) = FALSE})

-----------------------------------------------------------------------------
(* apply_gen and the generators.  Every generator run starts from a fresh  *)
(* Maze at pc = "apply_gen", ends at pc = "done" when apply_gen returns,   *)
(* and at pc = "raised" when an exception leaves generate.                 *)

MaxCellsDfs == 9

InitGen(maxCells) ==
    /\ \E d \in Dims(maxCells) : MazeInit(d)
    /\ pc = "apply_gen"
    /\ loc = [raised |-> FALSE]

\* Maze.rand_cell: the cells randrange can produce
rand_cell == {Cell(r, c) : r \in 0 .. (nrows - 1), c \in 0 .. (ncols - 1)}

\* _break_wall(wall, pen) on the wall sets W
break_wall(W, wall) == set_walls(W, <<wall>>, FALSE)

\* the list l without its i-th element
RemoveAt(l, i) == [j \in 1 .. (Len(l) - 1) |-> IF j < i THEN l[j] ELSE l[j + 1]]

(* DfsGenerate *)

\* apply_gen up to the first iteration of generate's loop
DfsStart(cell) ==
    /\ pc = "apply_gen"
    /\ walls' = reset(TRUE)
    /\ pc' = "dfs"
    /\ loc' = [visited |-> new_cell_set(FALSE), stack |-> <<>>, cell |-> cell]
    /\ UNCHANGED <<nrows, ncols, mod_count>>

\* the backtracking loop that keeps every untried wall, visited or not
RECURSIVE dfs_pop_unfiltered(_, _, _)
dfs_pop_unfiltered(stack, visited, cell) ==
    IF Len(stack) = 0 THEN [cell |-> cell, walls |-> <<>>, stack |-> stack]
    ELSE [cell |-> stack[Len(stack)][1], walls |-> stack[Len(stack)][2],
          stack |-> SubSeq(stack, 1, Len(stack) - 1)]

\* the backtracking loop (lines 225-234): pop frames until one still has a
\* wall to an unvisited cell, or the stack is empty
RECURSIVE dfs_pop(_, _, _)
dfs_pop(stack, visited, cell) ==
    IF Len(stack) = 0 THEN [cell |-> cell, walls |-> <<>>, stack |-> stack]
    ELSE LET top == stack[Len(stack)]
             rest == SubSeq(stack, 1, Len(stack) - 1)
             ws == SelectSeq(top[2], LAMBDA w : ~CellSet_contains(visited, next_cell(w)))
         IN IF Len(ws) = 0 THEN dfs_pop(rest, visited, top[1])
            ELSE [cell |-> top[1], walls |-> ws, stack |-> rest]

\* one iteration of the loop up to the choice: the visited set, the cell the
\* walk continues from, its candidate walls and the stack
dfs_frame ==
    LET visited == CellSet_setitem(loc.visited, loc.cell, TRUE)
        ws == walls_around(loc.cell, {}, FALSE, visited)
    IN IF Len(ws) = 0
       THEN [visited |-> visited] @@ dfs_pop(loc.stack, visited, loc.cell)
       ELSE [visited |-> visited, cell |-> loc.cell, walls |-> ws, stack |-> loc.stack]

\* an iteration that breaks a wall: random.choice returns the i-th candidate
DfsCarve(i) ==
    /\ pc = "dfs"
    /\ LET f == dfs_frame IN
        /\ i \in 1 .. Len(f.walls)
        /\ LET next_wall == f.walls[i]
               r == break_wall(walls, next_wall)
               left == RemoveAt(f.walls, i)
           IN /\ walls' = r.walls
              /\ mod_count' = IF r.raised THEN mod_count ELSE mod_count + 1
              /\ pc' = IF r.raised THEN "raised" ELSE "dfs"
              /\ loc' = [visited |-> f.visited,
                         stack |-> IF Len(left) # 0
                                   THEN Append(f.stack, <<f.cell, left>>)
                                   ELSE f.stack,
                         cell |-> next_cell(next_wall)]
    /\ UNCHANGED <<nrows, ncols>>

\* the iteration that finds no wall left and breaks out of the loop
DfsFinish ==
    /\ pc = "dfs"
    /\ LET f == dfs_frame IN
        /\ Len(f.walls) = 0
        /\ loc' = [visited |-> f.visited, stack |-> f.stack, cell |-> f.cell]
    /\ pc' = "done"
    /\ UNCHANGED <<nrows, ncols, walls, mod_count>>

NextDfs ==
    \/ \E cell \in rand_cell : DfsStart(cell)
    \/ \E i \in 1 .. 4 : DfsCarve(i)
    \/ DfsFinish

InitDfs == InitGen(MaxCellsDfs)

SpecDfs == InitDfs /\ [][NextDfs]_vars

\* C3: when apply_gen(DfsGenerate) returns, the open passages form a
\* spanning tree of the grid (all cells mutually reachable, nrows*ncols - 1
\* passages), so end_cell is reachable from start_cell; every cell was visited.
C3_DfsSpanningTree ==
    pc = "done" =>
        /\ SpanningTree
        /\ end_cell \in Reach({start_cell})
        /\ loc.visited = new_cell_set(TRUE)

\* a finished run on a grid with a junction: the walk came back to a stacked
\* frame and carved a second branch from it
C3_Witness ==
    /\ pc = "done" /\ nrows >= 2 /\ ncols >= 2
    /\ \E c \in AllCells : Degree(c) >= 3

-----------------------------------------------------------------------------
(* WilsonGenerate *)

MaxCellsWilson == 9

\* apply_gen and generate up to the outer loop
WilsonStart(seed) ==
    /\ pc = "apply_gen"
    /\ walls' = reset(TRUE)
    /\ pc' = "wilson_outer"
    /\ loc' = [in_maze |-> CellSet_setitem(new_cell_set(FALSE), seed, TRUE),
               in_path |-> new_cell_set(FALSE),
               last_cell |-> Cell(0, 0),
               cur_cell |-> "None", path_start |-> "None",
               path |-> <<>>, forbidden_moves |-> {}]
    /\ UNCHANGED <<nrows, ncols, mod_count>>

\* random_not_in_maze with a scan that passes over the first cell it finds
\* when there is another
not_in_maze_from_second(last_cell, in_maze) ==
    LET found == SelectSeq(all_cells(last_cell), LAMBDA c : ~CellSet_contains(in_maze, c))
    IN IF Len(found) > 1 THEN Tail(found) ELSE found

\* random_not_in_maze: the cells of the resumed scan that are not in in_maze
not_in_maze_from(last_cell, in_maze) ==
    SelectSeq(all_cells(last_cell), LAMBDA c : ~CellSet_contains(in_maze, c))

\* the outer loop finds a cell outside the maze and starts a walk from it
WilsonPick ==
    /\ pc = "wilson_outer"
    /\ LET found == not_in_maze_from(loc.last_cell, loc.in_maze) IN
        /\ Len(found) > 0
        /\ loc' = [loc EXCEPT !.last_cell = found[1],
                              !.cur_cell = found[1],
                              !.in_path = CellSet_setitem(@, found[1], TRUE),
                              !.path_start = found[1],
                              !.path = <<>>,
                              !.forbidden_moves = {}]
    /\ pc' = "wilson_walk"
    /\ UNCHANGED <<nrows, ncols, walls, mod_count>>

\* random_not_in_maze returns None: generate returns
WilsonFinish ==
    /\ pc = "wilson_outer"
    /\ Len(not_in_maze_from(loc.last_cell, loc.in_maze)) = 0
    /\ pc' = "done"
    /\ UNCHANGED <<nrows, ncols, walls, mod_count, loc>>

\* the candidate moves of the walk (line 303)
neighbors == walls_around(loc.cur_cell, loc.forbidden_moves, FALSE, {})

\* where the inner loop goes after a step: it ends when cur_cell is in in_maze
wilson_after(l) ==
    IF CellSet_contains(l.in_maze, l.cur_cell) THEN "wilson_commit" ELSE "wilson_walk"

\* the positions (from 0) of the path walls that leave next_cell (line 315)
loop_starts(path, nc) == {i \in 0 .. (Len(path) - 1) : path[i + 1][1] = nc}

Min(S) == CHOOSE x \in S : \A y \in S : x <= y

RECURSIVE remove_next_cells(_, _, _)
remove_next_cells(in_path, path, i) ==
    IF i > Len(path) THEN in_path
    ELSE remove_next_cells(CellSet_setitem(in_path, next_cell(path[i]), FALSE), path, i + 1)

\* the erasure that leaves the cells of the erased loop in in_path
wilson_erase_keep_in_path(l, loop_start) ==
    [l EXCEPT !.cur_cell = IF loop_start < 0 THEN l.path_start
                           ELSE next_cell(l.path[loop_start + 1]),
              !.path = SubSeq(l.path, 1, loop_start + 1),
              !.forbidden_moves = {}]

\* lines 317-325: erase the walls after position loop_start
wilson_erase(l, loop_start) ==
    [l EXCEPT !.in_path = remove_next_cells(@, l.path, loop_start + 2),
              !.cur_cell = IF loop_start < 0 THEN l.path_start
                           ELSE next_cell(l.path[loop_start + 1]),
              !.path = SubSeq(l.path, 1, loop_start + 1),
              !.forbidden_moves = {}]

\* a step of the walk onto a cell of the current path: the loop is erased
WilsonErase(i) ==
    /\ pc = "wilson_walk"
    /\ i \in 1 .. Len(neighbors)
    /\ LET next_wall == neighbors[i]
           nc == next_cell(next_wall)
           starts == loop_starts(loc.path, nc)
       IN /\ CellSet_contains(loc.in_path, nc)
          /\ IF nc # loc.path_start /\ starts = {}
             THEN /\ pc' = "raised"
                  /\ loc' = loc @@ [exception |-> "StopIteration"]
             ELSE LET l == wilson_erase(loc, IF nc = loc.path_start THEN -1 ELSE Min(starts))
                  IN loc' = l /\ pc' = wilson_after(l)
    /\ UNCHANGED <<nrows, ncols, walls, mod_count>>

\* a step of the walk onto a cell outside the current path
WilsonExtend(i) ==
    /\ pc = "wilson_walk"
    /\ i \in 1 .. Len(neighbors)
    /\ LET next_wall == neighbors[i]
           nc == next_cell(next_wall)
       IN /\ ~CellSet_contains(loc.in_path, nc)
          /\ LET l == [loc EXCEPT !.in_path = CellSet_setitem(@, nc, TRUE),
                                  !.path = Append(@, next_wall),
                                  !.forbidden_moves = {opp_table[next_wall[2]]},
                                  !.cur_cell = nc]
             IN loc' = l /\ pc' = wilson_after(l)
    /\ UNCHANGED <<nrows, ncols, walls, mod_count>>

\* the walk has no candidate move (lines 305-306).  The raise statement
\* formats its message with "%s" % cur_cell, a two-element tuple, so the
\* exception that leaves generate is a TypeError.
WilsonRaise ==
    /\ pc = "wilson_walk"
    /\ Len(neighbors) = 0
    /\ pc' = "raised"
    /\ loc' = loc @@ [exception |-> "TypeError"]
    /\ UNCHANGED <<nrows, ncols, walls, mod_count>>

\* after the walk: the walls of the path are broken, the path joins the maze
WilsonCommit ==
    /\ pc = "wilson_commit"
    /\ LET r == set_walls(walls, loc.path, FALSE) IN
        /\ walls' = r.walls
        /\ mod_count' = IF r.raised THEN mod_count ELSE mod_count + Len(loc.path)
        /\ pc' = IF r.raised THEN "raised" ELSE "wilson_outer"
    /\ loc' = [loc EXCEPT !.in_maze = @ \cup loc.in_path,
                          !.in_path = new_cell_set(FALSE)]
    /\ UNCHANGED <<nrows, ncols>>

NextWilson ==
    \/ \E seed \in rand_cell : WilsonStart(seed)
    \/ WilsonPick
    \/ WilsonFinish
    \/ \E i \in 1 .. 4 : WilsonErase(i)
    \/ \E i \in 1 .. 4 : WilsonExtend(i)
    \/ WilsonRaise
    \/ WilsonCommit

InitWilson == InitGen(MaxCellsWilson)

SpecWilson == InitWilson /\ [][NextWilson]_vars

\* the cells of a CellSet
cells_of(set) == {c \in AllCells : CellSet_contains(set, c)}

WilsonRunning == pc \in {"wilson_outer", "wilson_walk", "wilson_commit", "done"}

\* the committed passages form a tree over exactly the cells of in_maze
CommittedTree ==
    /\ Cardinality(OpenPassages) = Cardinality(loc.in_maze) - 1
    /\ \A c \in cells_of(loc.in_maze) : Reach({c}) = cells_of(loc.in_maze)

\* C4: when apply_gen(WilsonGenerate) returns, every cell is in in_maze, all
\* cells are mutually reachable and exactly nrows*ncols - 1 passages are open;
\* all along the run the committed paths form a tree over in_maze (no
\* committed path closes a cycle).
C4_WilsonSpanningTree ==
    /\ WilsonRunning => CommittedTree
    /\ pc = "done" => (loc.in_maze = new_cell_set(TRUE) /\ SpanningTree)

\* a finished run on a grid with a cycle to avoid, ending in a junction
C4_Witness ==
    /\ pc = "done" /\ nrows >= 2 /\ ncols >= 2
    /\ mod_count = num_cells - 1
    /\ \E c \in AllCells : Degree(c) >= 3

\* C5: WilsonGenerate never reaches its "No reachable neighbour" raise: at
\* every step of the walk walls_around(cur_cell, except_sides=forbidden_moves)
\* returns at least one wall.
C5_AlwaysANeighbour == pc = "wilson_walk" => Len(neighbors) > 0

-----------------------------------------------------------------------------
(* PrimGenerate *)

MaxCellsPrim == 9

\* the elements of a list
Range(l) == {l[i] : i \in 1 .. Len(l)}

\* apply_gen and generate up to the loop: the frontier is computed before the
\* seed is marked visited
PrimStart(seed) ==
    /\ pc = "apply_gen"
    /\ walls' = reset(TRUE)
    /\ pc' = "prim"
    /\ loc' = [visited |-> CellSet_setitem(new_cell_set(FALSE), seed, TRUE),
               walls |-> Range(walls_around(seed, {}, FALSE, new_cell_set(FALSE))),
               wall |-> <<>>]
    /\ UNCHANGED <<nrows, ncols, mod_count>>

\* the test of line 187 with "or" for "^"
either_visited(visited, wall) ==
    CellSet_contains(visited, wall[1]) \/ CellSet_contains(visited, next_cell(wall))

\* line 187: exactly one of the two cells of the wall is visited
exactly_one_visited(visited, wall) ==
    CellSet_contains(visited, wall[1]) # CellSet_contains(visited, next_cell(wall))

\* an iteration on a wall with one visited cell: the wall is broken
PrimCarve(wall) ==
    /\ pc = "prim"
    /\ wall \in loc.walls
    /\ exactly_one_visited(loc.visited, wall)
    /\ LET r == break_wall(walls, wall)
           visited == CellSet_setitem(loc.visited, next_cell(wall), TRUE)
           new_walls == walls_around(next_cell(wall), {}, FALSE, visited)
       IN /\ walls' = r.walls
          /\ mod_count' = IF r.raised THEN mod_count ELSE mod_count + 1
          /\ pc' = IF r.raised THEN "raised" ELSE "prim"
          /\ loc' = [visited |-> visited,
                     walls |-> (loc.walls \ {wall}) \cup Range(new_walls),
                     wall |-> wall]
    /\ UNCHANGED <<nrows, ncols>>

\* an iteration on any other wall: it only leaves the frontier
PrimDiscard(wall) ==
    /\ pc = "prim"
    /\ wall \in loc.walls
    /\ ~exactly_one_visited(loc.visited, wall)
    /\ loc' = [loc EXCEPT !.walls = @ \ {wall}, !.wall = wall]
    /\ UNCHANGED <<nrows, ncols, walls, mod_count, pc>>

\* the frontier is empty
PrimFinish ==
    /\ pc = "prim"
    /\ loc.walls = {}
    /\ pc' = "done"
    /\ UNCHANGED <<nrows, ncols, walls, mod_count, loc>>

NextPrim ==
    \/ \E seed \in rand_cell : PrimStart(seed)
    \/ \E wall \in AllCells \X SideSet : PrimCarve(wall)
    \/ \E wall \in AllCells \X SideSet : PrimDiscard(wall)
    \/ PrimFinish

InitPrim == InitGen(MaxCellsPrim)

SpecPrim == InitPrim /\ [][NextPrim]_vars

\* C6 (step part): an iteration whose wall has both cells visited removes
\* the wall from the frontier and changes neither a wall bit nor visited
DiscardWithoutEffect ==
    (/\ pc = "prim" /\ pc' = "prim"
     /\ CellSet_contains(loc.visited, loc'.wall[1])
     /\ CellSet_contains(loc.visited, next_cell(loc'.wall)))
    => /\ walls' = walls
       /\ loc'.visited = loc.visited
       /\ loc'.walls = loc.walls \ {loc'.wall}

\* C6: when apply_gen(PrimGenerate) returns the passages form a spanning
\* tree, and a frontier wall between two visited cells is discarded without
\* side effects.
C6_PrimSpanningTree ==
    [](pc = "done" => SpanningTree) /\ [][DiscardWithoutEffect]_vars

\* a finished run whose last iteration discarded a standing wall between two
\* visited cells
C6_Witness ==
    /\ pc = "done" /\ loc.wall # <<>>
    /\ has_wall(loc.wall) = TRUE
    /\ CellSet_contains(loc.visited, loc.wall[1])
    /\ CellSet_contains(loc.visited, next_cell(loc.wall))

-----------------------------------------------------------------------------
(* _KruskalConnectedComp: a union-find node is named by a key (for Kruskal *)
(* the cell it belongs to); roots[k] is the __root field of node k.        *)

\* the nodes from node k up to, and without, its root (to_update, lines 403-407)
RECURSIVE to_update(_, _)
to_update(roots, k) == IF roots[k] = k THEN {} ELSE {k} \cup to_update(roots, roots[k])

RECURSIVE find_root(_, _)
find_root(roots, k) == IF roots[k] = k THEN k ELSE find_root(roots, roots[k])

\* root(replacement) without the loop of lines 412-413: only r is re-parented
root_replaced_uncompressed(roots, k, replacement) ==
    LET r == find_root(roots, k)
    IN [r |-> r, roots |-> [roots EXCEPT ![r] = replacement]]

\* root(replacement) for a replacement that is a node: the root r found, and
\* the __root fields afterwards (r and the nodes of to_update point to replacement)
root_replaced(roots, k, replacement) ==
    LET r == find_root(roots, k)
    IN [r |-> r,
        roots |-> [n \in DOMAIN roots |->
                     IF n = r \/ n \in to_update(roots, k) THEN replacement ELSE roots[n]]]

\* root(): replacement is None, real_root is the root found
root(roots, k) == root_replaced(roots, k, find_root(roots, k))

\* is_connected: the answer, and the __root fields after the two root() calls
is_connected(roots, a, b) ==
    IF a = b THEN [connected |-> TRUE, roots |-> roots]
    ELSE LET ra == root(roots, a)
             rb == root(ra.roots, b)
         IN [connected |-> ra.r = rb.r, roots |-> rb.roots]

\* connect that re-parents the node itself and not its root
connect_node_only(roots, a, b) == [roots EXCEPT ![b] = a]

\* connect(self = a, tree = b)
connect(roots, a, b) == root_replaced(roots, b, a).roots

(* KruskalGenerate *)

MaxCellsKruskal == 6

\* apply_gen and generate up to the loop.  random.shuffle(edges) followed by
\* edges.pop() per iteration examines the edges in an arbitrary order: edges
\* is kept as the set of the walls not popped yet, and each iteration pops
\* any of them.
KruskalStart ==
    /\ pc = "apply_gen"
    /\ walls' = reset(TRUE)
    /\ pc' = "kruskal"
    /\ loc' = [edges |-> AllCells \X {"WEST", "NORTH"},
               sets |-> [c \in AllCells |-> c]]
    /\ UNCHANGED <<nrows, ncols, mod_count>>

\* an iteration on a wall of the grid boundary
KruskalSkip(wall) ==
    /\ pc = "kruskal"
    /\ wall \in loc.edges
    /\ ~Maze_contains(next_cell(wall))
    /\ loc' = [loc EXCEPT !.edges = @ \ {wall}]
    /\ UNCHANGED <<nrows, ncols, walls, mod_count, pc>>

\* an iteration on a wall between two cells
KruskalExamine(wall) ==
    /\ pc = "kruskal"
    /\ wall \in loc.edges
    /\ Maze_contains(next_cell(wall))
    /\ LET q == is_connected(loc.sets, wall[1], next_cell(wall)) IN
        IF q.connected
        THEN /\ loc' = [edges |-> loc.edges \ {wall}, sets |-> q.roots]
             /\ UNCHANGED <<walls, mod_count, pc>>
        ELSE LET r == break_wall(walls, wall) IN
             /\ loc' = [edges |-> loc.edges \ {wall},
                        sets |-> connect(q.roots, wall[1], next_cell(wall))]
             /\ walls' = r.walls
             /\ mod_count' = IF r.raised THEN mod_count ELSE mod_count + 1
             /\ pc' = IF r.raised THEN "raised" ELSE "kruskal"
    /\ UNCHANGED <<nrows, ncols>>

KruskalFinish ==
    /\ pc = "kruskal"
    /\ loc.edges = {}
    /\ pc' = "done"
    /\ UNCHANGED <<nrows, ncols, walls, mod_count, loc>>

NextKruskal ==
    \/ KruskalStart
    \/ \E wall \in AllCells \X {"WEST", "NORTH"} : KruskalSkip(wall)
    \/ \E wall \in AllCells \X {"WEST", "NORTH"} : KruskalExamine(wall)
    \/ KruskalFinish

InitKruskal == InitGen(MaxCellsKruskal)

SpecKruskal == InitKruskal /\ [][NextKruskal]_vars

\* C7 (step part): an iteration on an interior wall (the wall that left
\* edges) breaks it exactly when no chain of open passages joined its two
\* cells before
CarvedIffSeparate ==
    (pc = "kruskal" /\ pc' = "kruskal") =>
        \A wall \in loc.edges \ loc'.edges :
            Maze_contains(next_cell(wall)) =>
                ((has_wall_in(walls', wall) = FALSE)
                    <=> (next_cell(wall) \notin Reach({wall[1]})))

\* C7: when apply_gen(KruskalGenerate) returns the passages form a spanning
\* tree, a wall being carved exactly when its two cells were in different
\* components when it was examined.
C7_KruskalSpanningTree ==
    [](pc = "done" => SpanningTree) /\ [][CarvedIffSeparate]_vars

\* a finished run on a grid with a cycle: a wall between two cells was
\* examined and kept standing, its cells being joined already
C7_Witness ==
    /\ pc = "done" /\ nrows >= 2 /\ ncols >= 2
    /\ \E wall \in AllCells \X {"WEST", "NORTH"} :
          Maze_contains(next_cell(wall)) /\ has_wall(wall) = TRUE

-----------------------------------------------------------------------------
(* EllerGen.  The _EllerConnectedComp objects are numbered in the order of *)
(* their creation: roots[k] is the __root of object k.  The __cells lists  *)
(* are shared between objects, so they are kept apart: cells[k] names the  *)
(* list object k holds and lists[n] is the content of list n (list n is    *)
(* the one created with object n).  The shuffled list `edges` is never     *)
(* read again and is left out.                                             *)

MaxCellsEller == 9

None == 0

\* _EllerConnectedComp(): a fresh object appended to the heap h
new_cc(h) ==
    [h EXCEPT !.roots = Append(@, Len(@) + 1),
              !.cells = Append(@, Len(@) + 1),
              !.lists = Append(@, <<>>)]

\* _EllerConnectedComp.add
cc_add(h, k, item) == [h EXCEPT !.lists[h.cells[k]] = Append(@, item)]

\* _EllerConnectedComp.connect(self = a, other = b)
cc_connect(h, a, b) ==
    [h EXCEPT !.roots = connect(@, a, b),
              !.lists[h.cells[a]] = @ \o h.lists[h.cells[b]],
              !.cells[b] = h.cells[a]]

\* clear_row that leaves the list as it is
clear_row_kept(h, k) == h

\* _EllerConnectedComp.clear_row
clear_row(h, k) == [h EXCEPT !.lists[h.cells[k]] = <<>>]

\* the test that forces the merge (line 531): never
never_last_row(row) == FALSE

\* the test that forces the merge (line 531): row is the last row
is_last_row(row) == row = nrows - 1

RECURSIVE fresh_ccs(_, _)
\* n fresh objects on the heap h
fresh_ccs(h, n) == IF n = 0 THEN h ELSE fresh_ccs(new_cc(h), n - 1)

\* apply_gen and generate up to the loop over the rows
EllerStart ==
    /\ pc = "apply_gen"
    /\ walls' = reset(TRUE)
    /\ pc' = "eller_east"
    /\ loc' = fresh_ccs([roots |-> <<>>, cells |-> <<>>, lists |-> <<>>], ncols)
              @@ [row |-> 0, col |-> 0,
                  cur_row |-> [i \in 1 .. ncols |-> i],
                  next_row |-> [i \in 1 .. ncols |-> None],
                  done_cc |-> {}]
    /\ UNCHANGED <<nrows, ncols, mod_count>>

\* the state of an east step after cur_cc.add(cur_cell) and is_connected
east_probe ==
    LET cur_cc == loc.cur_row[loc.col + 1]
        next_cc == loc.cur_row[loc.col + 2]
        h == cc_add(loc, cur_cc, Cell(loc.row, loc.col))
        q == is_connected(h.roots, cur_cc, next_cc)
    IN [cur_cc |-> cur_cc, next_cc |-> next_cc, connected |-> q.connected,
        h |-> [h EXCEPT !.roots = q.roots]]

\* lines 532-534: the east wall is broken and the two components joined
east_merge(p, pcNext) ==
    LET r == break_wall(walls, Wall(Cell(loc.row, loc.col), "EAST"))
        h == cc_connect(p.h, p.cur_cc, p.next_cc)
    IN /\ walls' = r.walls
       /\ mod_count' = IF r.raised THEN mod_count ELSE mod_count + 1
       /\ pc' = IF r.raised THEN "raised" ELSE pcNext
       /\ loc' = [h EXCEPT !.cur_row[loc.col + 2] = p.cur_cc, !.col = @ + 1]

\* an east step on two cells already connected
EllerEastConnected ==
    /\ pc = "eller_east"
    /\ loc.col < ncols - 1
    /\ LET p == east_probe IN
        /\ p.connected
        /\ loc' = [p.h EXCEPT !.cur_row[loc.col + 2] = p.cur_cc, !.col = @ + 1]
    /\ UNCHANGED <<nrows, ncols, walls, mod_count, pc>>

\* an east step on the last row: the merge is forced, no coin is flipped
EllerEastForced ==
    /\ pc = "eller_east"
    /\ loc.col < ncols - 1
    /\ is_last_row(loc.row)
    /\ LET p == east_probe IN
        /\ ~p.connected
        /\ east_merge(p, "eller_east")
    /\ UNCHANGED <<nrows, ncols>>

\* an east step on another row: random.randint(0, 1) decides
EllerEastCoin(flip) ==
    /\ pc = "eller_east"
    /\ loc.col < ncols - 1
    /\ ~is_last_row(loc.row)
    /\ LET p == east_probe IN
        /\ ~p.connected
        /\ IF flip = 1
           THEN east_merge(p, "eller_east")
           ELSE /\ loc' = [p.h EXCEPT !.col = @ + 1]
                /\ UNCHANGED <<walls, mod_count, pc>>
    /\ UNCHANGED <<nrows, ncols>>

\* the last cell of the row (lines 539-549)
EllerRowEnd ==
    /\ pc = "eller_east"
    /\ loc.col = ncols - 1
    /\ loc' = [cc_add(loc, loc.cur_row[ncols], Cell(loc.row, ncols - 1))
                  EXCEPT !.col = 0, !.done_cc = {}]
    /\ pc' = IF loc.row = nrows - 1 THEN "eller_last" ELSE "eller_south"
    /\ UNCHANGED <<nrows, ncols, walls, mod_count>>

\* the state of a south step after cur_cc.root()
south_probe ==
    LET cur_cc == loc.cur_row[loc.col + 1]
        q == root(loc.roots, cur_cc)
    IN [cur_cc |-> cur_cc, r |-> q.r, h |-> [loc EXCEPT !.roots = q.roots],
        cc_cells_in_row |-> loc.lists[loc.cells[cur_cc]]]

\* a south step on a component that is done
EllerSouthSkip ==
    /\ pc = "eller_south"
    /\ loc.col < ncols
    /\ LET p == south_probe IN
        /\ p.r \in loc.done_cc
        /\ loc' = [p.h EXCEPT !.col = @ + 1]
    /\ UNCHANGED <<nrows, ncols, walls, mod_count, pc>>

RECURSIVE break_walls(_, _, _)
\* _break_wall on each wall of ws from index i on: the walls afterwards, the
\* number of calls that returned, and whether one raised
break_walls(W, ws, i) ==
    IF i > Len(ws) THEN [walls |-> W, count |-> 0, raised |-> FALSE]
    ELSE LET r == break_wall(W, ws[i])
         IN IF r.raised THEN [walls |-> W, count |-> 0, raised |-> TRUE]
            ELSE LET t == break_walls(r.walls, ws, i + 1)
                 IN [t EXCEPT !.count = @ + 1]

\* the cells random.sample draws from the positions S of the list cs
sample(cs, S) ==
    LET idx == SelectSeq([i \in 1 .. Len(cs) |-> i], LAMBDA i : i \in S)
    IN [j \in 1 .. Len(idx) |-> cs[idx[j]]]

\* a south step on a new component: random.randint(1, len) draws the number
\* of cells and random.sample the cells, at the positions S of cells_in_row;
\* on an empty list random.randint(1, 0) raises ValueError
EllerSouthCarve ==
    /\ pc = "eller_south"
    /\ loc.col < ncols
    /\ LET p == south_probe IN
        /\ p.r \notin loc.done_cc
        /\ IF Len(p.cc_cells_in_row) = 0
           THEN /\ loc' = [p.h EXCEPT !.done_cc = @ \cup {p.r}]
                /\ pc' = "raised"
                /\ UNCHANGED <<walls, mod_count>>
           ELSE \E S \in (SUBSET (1 .. Len(p.cc_cells_in_row))) \ {{}} :
                LET drawn == sample(p.cc_cells_in_row, S)
                    r == break_walls(walls,
                                     [j \in 1 .. Len(drawn) |-> Wall(drawn[j], "SOUTH")], 1)
                IN /\ walls' = r.walls
                   /\ mod_count' = mod_count + r.count
                   /\ pc' = IF r.raised THEN "raised" ELSE "eller_south"
                   /\ loc' = [clear_row(p.h, p.cur_cc) EXCEPT
                                 !.done_cc = @ \cup {p.r},
                                 !.next_row = [i \in 1 .. ncols |->
                                                 IF \E j \in 1 .. Len(drawn) :
                                                        drawn[j][2] = i - 1
                                                 THEN p.cur_cc ELSE @[i]],
                                 !.col = @ + 1]
    /\ UNCHANGED <<nrows, ncols>>

RECURSIVE fill_next_row(_, _, _)
\* lines 568-570: a fresh component for every column of next_row that has none
fill_next_row(h, next_row, i) ==
    IF i > Len(next_row) THEN [h |-> h, next_row |-> next_row]
    ELSE IF next_row[i] = None
         THEN fill_next_row(new_cc(h), [next_row EXCEPT ![i] = Len(h.roots) + 1], i + 1)
         ELSE fill_next_row(h, next_row, i + 1)

\* the end of the south steps: the next row becomes the current one
EllerNextRow ==
    /\ pc = "eller_south"
    /\ loc.col = ncols
    /\ LET f == fill_next_row(loc, loc.next_row, 1) IN
        loc' = [f.h EXCEPT !.cur_row = f.next_row,
                           !.next_row = [i \in 1 .. ncols |-> None],
                           !.row = @ + 1,
                           !.col = 0]
    /\ pc' = "eller_east"
    /\ UNCHANGED <<nrows, ncols, walls, mod_count>>

\* a step of the loop after the rows (lines 580-597), on the last row again
EllerLast ==
    /\ pc = "eller_last"
    /\ loc.col < ncols - 1
    /\ LET p == east_probe IN
        IF p.connected
        THEN /\ loc' = [p.h EXCEPT !.cur_row[loc.col + 2] = p.cur_cc, !.col = @ + 1]
             /\ UNCHANGED <<walls, mod_count, pc>>
        ELSE \E flip \in 0 .. 1 :
                IF flip = 1
                THEN east_merge(p, "eller_last")
                ELSE /\ loc' = [p.h EXCEPT !.col = @ + 1]
                     /\ UNCHANGED <<walls, mod_count, pc>>
    /\ UNCHANGED <<nrows, ncols>>

EllerFinish ==
    /\ pc = "eller_last"
    /\ loc.col = ncols - 1
    /\ pc' = "done"
    /\ UNCHANGED <<nrows, ncols, walls, mod_count, loc>>

NextEller ==
    \/ EllerStart
    \/ EllerEastConnected
    \/ EllerEastForced
    \/ \E flip \in 0 .. 1 : EllerEastCoin(flip)
    \/ EllerRowEnd
    \/ EllerSouthSkip
    \/ EllerSouthCarve
    \/ EllerNextRow
    \/ EllerLast
    \/ EllerFinish

InitEller == InitGen(MaxCellsEller)

SpecEller == InitEller /\ [][NextEller]_vars

\* an east step of the row loop on the last row: two neighbours that no path
\* of passages joins lose the wall between them, whatever is drawn, and two
\* neighbours already joined keep it
LastRowMerge ==
    (pc = "eller_east" /\ loc.row = nrows - 1 /\ loc.col < ncols - 1)
        => LET cell == Cell(loc.row, loc.col)
           IN has_wall_in(walls', Wall(cell, "EAST"))
                = (next(cell, "EAST") \in Reach({cell}))

\* C8: when apply_gen(EllerGen) returns, the open passages form a spanning
\* tree of the grid (every cell reachable from every other one, exactly
\* nrows*ncols - 1 open interior passages), and on the last row every pair of
\* horizontally adjacent cells not yet connected is merged, with no coin flip.
C8_EllerSpanningTree ==
    /\ [](pc # "raised" /\ (pc = "done" => SpanningTree))
    /\ [][LastRowMerge]_vars

\* a finished 3x3 maze in which the forced merge opened the first east wall
\* of the last row
C8_Witness ==
    /\ pc = "done"
    /\ nrows = 3 /\ ncols = 3
    /\ ~has_wall(Wall(Cell(2, 0), "EAST"))
    /\ has_wall(Wall(Cell(2, 1), "EAST"))
    /\ SpanningTree

-----------------------------------------------------------------------------
(* RecursiveDivisionGenerate.  A chamber is the pair <<top_left, bot_right>> *)

MaxCellsDivision == 9

Chamber(top_left, bot_right) == <<top_left, bot_right>>

width(chamber) == chamber[2][2] - chamber[1][2] + 1

height(chamber) == chamber[2][1] - chamber[1][1] + 1

is_unit(chamber) == height(chamber) < 2 \/ width(chamber) < 2

\* Chamber.border_wall: the walls bordering the chamber on a side
border_wall(chamber, side) ==
    IF side = "EAST" \/ side = "WEST"
    THEN LET const_col == IF side = "EAST" THEN chamber[2][2] ELSE chamber[1][2]
         IN [k \in 1 .. height(chamber) |->
                Wall(Cell(chamber[1][1] + k - 1, const_col), side)]
    ELSE LET const_row == IF side = "SOUTH" THEN chamber[2][1] ELSE chamber[1][1]
         IN [k \in 1 .. width(chamber) |->
                Wall(Cell(const_row, chamber[1][2] + k - 1), side)]

cut(c1, c2) == (c1 + c2) \div 2

\* divide: the four subchambers, in the order they are returned
subchambers(chamber, h_divider, v_divider) ==
    LET top_left == Chamber(chamber[1], Cell(h_divider, v_divider))
        top_right == Chamber(Cell(chamber[1][1], v_divider + 1),
                             Cell(h_divider, chamber[2][2]))
        bot_right == Chamber(Cell(h_divider + 1, v_divider + 1), chamber[2])
        bot_left == Chamber(Cell(h_divider + 1, chamber[1][2]),
                            Cell(chamber[2][1], v_divider))
    IN <<top_left, top_right, bot_right, bot_left>>

\* divide: the four wall ranges before the passages are cut out
new_walls(chamber, h_divider, v_divider) ==
    LET sub == subchambers(chamber, h_divider, v_divider)
    IN <<border_wall(sub[2], "WEST"), border_wall(sub[3], "WEST"),
         border_wall(sub[4], "NORTH"), border_wall(sub[3], "NORTH")>>

\* the wall ranges with a passage cut out of every one of them
cut_out_all(ranges, sampled, at) ==
    [i \in 1 .. 4 |-> RemoveAt(ranges[i], at[i])]

\* the wall ranges after wall_range.pop(at[i]) on the sampled ones
cut_out(ranges, sampled, at) ==
    [i \in 1 .. 4 |-> IF i \in sampled THEN RemoveAt(ranges[i], at[i]) ELSE ranges[i]]

RECURSIVE erect(_, _, _)
\* set_walls(*walls, is_present=True) on each range from the i-th on: the
\* wall sets, what mod_count gained, and whether a call raised
erect(W, ranges, i) ==
    IF i > Len(ranges) THEN [walls |-> W, count |-> 0, raised |-> FALSE]
    ELSE LET r == set_walls(W, ranges[i], TRUE)
         IN IF r.raised THEN [walls |-> r.walls, count |-> 0, raised |-> TRUE]
            ELSE LET t == erect(r.walls, ranges, i + 1)
                 IN [t EXCEPT !.count = @ + Len(ranges[i])]

\* apply_gen up to the first iteration of generate's loop
DivisionStart ==
    /\ pc = "apply_gen"
    /\ walls' = reset(FALSE)
    /\ pc' = "division"
    /\ loc' = [chambers |-> <<Chamber(Cell(0, 0), Cell(nrows - 1, ncols - 1))>>]
    /\ UNCHANGED <<nrows, ncols, mod_count>>

\* an iteration on a unit chamber
DivisionSkip ==
    /\ pc = "division"
    /\ Len(loc.chambers) > 0
    /\ is_unit(loc.chambers[Len(loc.chambers)])
    /\ loc' = [chambers |-> SubSeq(loc.chambers, 1, Len(loc.chambers) - 1)]
    /\ UNCHANGED <<nrows, ncols, walls, mod_count, pc>>

\* an iteration that divides: random.sample draws the ranges at the positions
\* sampled, random.randrange the position at[i] in the i-th of them; on an
\* empty sampled range random.randrange(0, 0) raises ValueError
DivisionDivide(sampled, at) ==
    /\ pc = "division"
    /\ Len(loc.chambers) > 0
    /\ LET chamber == loc.chambers[Len(loc.chambers)]
           rest == SubSeq(loc.chambers, 1, Len(loc.chambers) - 1)
           h_wall == cut(chamber[1][1], chamber[2][1])
           v_wall == cut(chamber[1][2], chamber[2][2])
           ranges == new_walls(chamber, h_wall, v_wall)
       IN /\ ~is_unit(chamber)
          /\ IF \E i \in sampled : Len(ranges[i]) = 0
             THEN /\ pc' = "raised"
                  /\ loc' = [chambers |-> rest]
                  /\ UNCHANGED <<walls, mod_count>>
             ELSE /\ \A i \in 1 .. 4 :
                        IF i \in sampled THEN at[i] <= Len(ranges[i]) ELSE at[i] = 1
                  /\ LET r == erect(walls, cut_out(ranges, sampled, at), 1)
                     IN /\ walls' = r.walls
                        /\ mod_count' = mod_count + r.count
                        /\ pc' = IF r.raised THEN "raised" ELSE "division"
                        /\ loc' = [chambers |->
                                     rest \o subchambers(chamber, h_wall, v_wall)]
    /\ UNCHANGED <<nrows, ncols>>

DivisionFinish ==
    /\ pc = "division"
    /\ Len(loc.chambers) = 0
    /\ pc' = "done"
    /\ UNCHANGED <<nrows, ncols, walls, mod_count, loc>>

NextDivision ==
    \/ DivisionStart
    \/ DivisionSkip
    \/ \E sampled \in {S \in SUBSET (1 .. 4) : Cardinality(S) = 3} :
          \E at \in [1 .. 4 -> 1 .. (nrows + ncols)] : DivisionDivide(sampled, at)
    \/ DivisionFinish

InitDivision == InitGen(MaxCellsDivision)

SpecDivision == InitDivision /\ [][NextDivision]_vars

\* the number of walls of a range that are down in the wall sets W
gaps(W, range) == Cardinality({k \in 1 .. Len(range) : ~has_wall_in(W, range[k])})

\* the chamber an iteration of the division loop is about to pop
Popped == loc.chambers[Len(loc.chambers)]

\* the four segments that divide the popped chamber
Segments ==
    new_walls(Popped, cut(Popped[1][1], Popped[2][1]), cut(Popped[1][2], Popped[2][2]))

\* apply_gen hands generate the all-clear maze
StartsAllClear ==
    pc = "apply_gen" =>
        \A w \in AllCells \X SideSet :
            Maze_contains(next_cell(w)) => ~has_wall_in(walls', w)

\* an iteration on a chamber with both dimensions >= 2 leaves four segments
\* that were clear standing, with one gap in three of them and none in the fourth
DivisionGaps ==
    (pc = "division" /\ Len(loc.chambers) > 0
        /\ height(Popped) >= 2 /\ width(Popped) >= 2)
      => /\ \A i \in 1 .. 4 : Len(Segments[i]) > 0 /\ gaps(walls, Segments[i]) = Len(Segments[i])
         /\ Cardinality({i \in 1 .. 4 : gaps(walls', Segments[i]) = 1}) = 3
         /\ Cardinality({i \in 1 .. 4 : gaps(walls', Segments[i]) = 0}) = 1
         /\ pc' = "division"

\* an iteration on a chamber with a dimension < 2 erects nothing and pushes
\* no subchamber
UnitUndivided ==
    (pc = "division" /\ Len(loc.chambers) > 0
        /\ (height(Popped) < 2 \/ width(Popped) < 2))
      => /\ walls' = walls
         /\ loc'.chambers = SubSeq(loc.chambers, 1, Len(loc.chambers) - 1)

\* C9: when apply_gen(RecursiveDivisionGenerate) returns, starting from the
\* all-clear maze, every cell is reachable from every other cell and exactly
\* nrows*ncols - 1 interior passages are open: each division of a chamber with
\* both dimensions >= 2 erects four wall segments, leaves exactly one gap in
\* exactly three of them and none in the fourth, and chambers with a dimension
\* < 2 are left undivided.
C9_DivisionSpanningTree ==
    /\ [](pc # "raised" /\ (pc = "done" => SpanningTree))
    /\ [][StartsAllClear /\ DivisionGaps /\ UnitUndivided]_vars

\* a finished 3x3 maze: the grid and its 2x2 top-left chamber were divided
\* (3 + 1 walls stand), the unit chambers were not
C9_Witness ==
    /\ pc = "done"
    /\ nrows = 3 /\ ncols = 3
    /\ mod_count = 4
    /\ Cardinality(OpenPassages) = 8
    /\ has_wall(Wall(Cell(2, 0), "NORTH")) /\ has_wall(Wall(Cell(2, 1), "NORTH"))

-----------------------------------------------------------------------------
(* SidewinderGenerate *)

MaxCellsSidewinder == 9

\* the walls cleared before the loop
top_walls == [y \in 1 .. ncols |-> Wall(Cell(0, y - 1), "WEST")]

\* the test of line 366 with the last column left out
closes_run_on_coin(col, break_north) == break_north # 0

\* the test of line 366: the run ends at this cell
closes_run(col, break_north) == col = ncols - 1 \/ break_north # 0

\* the loop variables after the iteration on (row, col)
sw_advance(row, col) ==
    IF col = ncols - 1 THEN [row |-> row + 1, col |-> 0]
    ELSE [row |-> row, col |-> col + 1]

\* apply_gen and generate up to the loop
SidewinderStart ==
    /\ pc = "apply_gen"
    /\ LET r == set_walls(reset(TRUE), top_walls, FALSE)
       IN /\ walls' = r.walls
          /\ mod_count' = IF r.raised THEN mod_count ELSE mod_count + Len(top_walls)
          /\ pc' = IF r.raised THEN "raised" ELSE "sidewinder"
    /\ loc' = [row |-> 1, col |-> 0, active |-> <<>>]
    /\ UNCHANGED <<nrows, ncols>>

\* an iteration that ends the run: random.choice draws the i-th wall of active
SidewinderClose(break_north, i) ==
    /\ pc = "sidewinder"
    /\ loc.row < nrows
    /\ closes_run(loc.col, break_north)
    /\ LET active == Append(loc.active, Wall(Cell(loc.row, loc.col), "WEST"))
       IN /\ i \in 1 .. Len(active)
          /\ LET north_wall == Wall(active[i][1], "NORTH")
                 r == break_wall(walls, north_wall)
             IN /\ walls' = r.walls
                /\ mod_count' = IF r.raised THEN mod_count ELSE mod_count + 1
                /\ pc' = IF r.raised THEN "raised" ELSE "sidewinder"
                /\ loc' = IF r.raised THEN [loc EXCEPT !.active = active]
                          ELSE sw_advance(loc.row, loc.col) @@ [active |-> <<>>]
    /\ UNCHANGED <<nrows, ncols>>

\* an iteration that extends the run to the east
SidewinderExtend(break_north) ==
    /\ pc = "sidewinder"
    /\ loc.row < nrows
    /\ ~closes_run(loc.col, break_north)
    /\ LET east_wall == Wall(Cell(loc.row, loc.col), "EAST")
           r == break_wall(walls, east_wall)
       IN /\ walls' = r.walls
          /\ mod_count' = IF r.raised THEN mod_count ELSE mod_count + 1
          /\ pc' = IF r.raised THEN "raised" ELSE "sidewinder"
          /\ loc' = IF r.raised THEN loc
                    ELSE sw_advance(loc.row, loc.col)
                         @@ [active |-> Append(loc.active, east_wall)]
    /\ UNCHANGED <<nrows, ncols>>

SidewinderFinish ==
    /\ pc = "sidewinder"
    /\ loc.row >= nrows
    /\ pc' = "done"
    /\ UNCHANGED <<nrows, ncols, walls, mod_count, loc>>

NextSidewinder ==
    \/ SidewinderStart
    \/ \E break_north \in 0 .. 1, i \in 1 .. ncols :
          SidewinderClose(break_north, i)
    \/ \E break_north \in 0 .. 1 : SidewinderExtend(break_north)
    \/ SidewinderFinish

InitSidewinder == InitGen(MaxCellsSidewinder)

SpecSidewinder == InitSidewinder /\ [][NextSidewinder]_vars

\* the columns of the run that ends at the cell of the iteration: the cells
\* of its row joined to it by east passages
Run ==
    {j \in 0 .. loc.col :
        \A k \in j .. (loc.col - 1) : ~has_wall(Wall(Cell(loc.row, k), "EAST"))}

\* the passages an iteration opens
Opened == {w \in AllCells \X {"NORTH", "WEST"} : has_wall(w) /\ ~has_wall_in(walls', w)}

\* an iteration of the loop either closes the run with one north carve from
\* a cell of the run, and nothing else, or joins the cell to its east
\* neighbour and keeps the run open; in the last column it closes the run
RunClosedOnce ==
    (pc = "sidewinder" /\ loc.row < nrows)
      => /\ walls'["NORTH"] \subseteq walls["NORTH"]
         /\ walls'["WEST"] \subseteq walls["WEST"]
         /\ \/ /\ \E j \in Run : Opened = {Wall(Cell(loc.row, j), "NORTH")}
               /\ loc'.active = <<>>
            \/ /\ loc.col < ncols - 1
               /\ Opened = {Wall(Cell(loc.row, loc.col + 1), "WEST")}
               /\ loc'.active # <<>>

\* a run is open only inside a row: none is left when a row starts
NoRunAcrossRows ==
    (pc = "sidewinder" /\ loc.col = 0) => loc.active = <<>>

\* C10: when apply_gen(SidewinderGenerate) returns, the open passages form a
\* spanning tree of the grid (every cell reachable from every other one,
\* exactly nrows*ncols - 1 open interior passages): in every row below the
\* first each run is closed by exactly one north carve from a cell of that
\* run, and the last column always closes the current run.
C10_SidewinderSpanningTree ==
    /\ [](pc # "raised" /\ (pc = "done" => SpanningTree) /\ NoRunAcrossRows)
    /\ [][RunClosedOnce]_vars

\* a finished 3x3 maze whose last row was one run, closed in the last column
\* by a north carve from its middle cell
C10_Witness ==
    /\ pc = "done"
    /\ nrows = 3 /\ ncols = 3
    /\ ~has_wall(Wall(Cell(2, 0), "EAST")) /\ ~has_wall(Wall(Cell(2, 1), "EAST"))
    /\ ~has_wall(Wall(Cell(2, 1), "NORTH"))
    /\ has_wall(Wall(Cell(2, 0), "NORTH")) /\ has_wall(Wall(Cell(2, 2), "NORTH"))
    /\ SpanningTree

-----------------------------------------------------------------------------
(* Two runs of PrimGenerate with one seed.  Random(random_seed) yields the  *)
(* same value for the k-th draw of both runs as long as every draw so far   *)
(* had the same argument: the draws of the first run are recorded in tape   *)
(* and the second run replays them.  The frontier of PrimGenerate is a set  *)
(* of Wall tuples, and tuple(walls) lists it in the order of the slots of   *)
(* the hash table: the slot of a Wall follows from its hash, which mixes    *)
(* the hash of the name of its Side, salted by the interpreter per process, *)
(* and from the collisions and insertions so far.  Over the hash seeds      *)
(* every order of a frontier occurs, so tuple(walls) is any order of the    *)
(* set, chosen anew at each call.                                           *)

MaxCellsTwice == 4

\* tuple(walls): the orders in which a process can list the set S
tuple_of(S) ==
    {t \in [1 .. Cardinality(S) -> S] : \A i, j \in 1 .. Cardinality(S) : i # j => t[i] # t[j]}

\* one iteration of the loop of PrimGenerate.generate on the wall drawn
prim_iteration(W, visited, frontier, wall) ==
    IF exactly_one_visited(visited, wall)
    THEN LET r == break_wall(W, wall)
             v == CellSet_setitem(visited, next_cell(wall), TRUE)
         IN [walls |-> r.walls, visited |-> v, carved |-> 1,
             frontier |-> (frontier \ {wall}) \cup Range(walls_around(next_cell(wall), {}, FALSE, v))]
    ELSE [walls |-> W, visited |-> visited, carved |-> 0, frontier |-> frontier \ {wall}]

\* the frontier before the loop, for the seed cell rand_cell drew
first_frontier(seed) == Range(walls_around(seed, {}, FALSE, new_cell_set(FALSE)))

\* the first run starts: Maze(nrows, ncols, random_seed), apply_gen
TwiceStart(seed) ==
    /\ pc = "apply_gen"
    /\ walls' = reset(TRUE)
    /\ pc' = "prim_first"
    /\ loc' = [visited |-> CellSet_setitem(new_cell_set(FALSE), seed, TRUE),
               walls |-> first_frontier(seed),
               seed |-> seed,
               tape |-> <<>>, drawn |-> 0, in_sync |-> TRUE, first |-> walls]
    /\ UNCHANGED <<nrows, ncols, mod_count>>

\* an iteration of the first run: random.choice draws the index i - 1
TwiceFirst(i) ==
    /\ pc = "prim_first"
    /\ i \in 1 .. Cardinality(loc.walls)
    /\ \E t \in tuple_of(loc.walls) :
          LET r == prim_iteration(walls, loc.visited, loc.walls, t[i])
          IN /\ walls' = r.walls
             /\ mod_count' = mod_count + r.carved
             /\ loc' = [loc EXCEPT !.visited = r.visited, !.walls = r.frontier,
                                   !.tape = Append(@, <<Len(t), i>>)]
    /\ UNCHANGED <<nrows, ncols, pc>>

\* the first run returns and the second starts in a process of its own, on a
\* Maze constructed with the same dimensions and seed: rand_cell repeats its draws
TwiceAgain ==
    /\ pc = "prim_first"
    /\ loc.walls = {}
    /\ walls' = reset(TRUE)
    /\ mod_count' = 0
    /\ pc' = "prim_second"
    /\ loc' = [loc EXCEPT !.visited = CellSet_setitem(new_cell_set(FALSE), loc.seed, TRUE),
                          !.walls = first_frontier(loc.seed),
                          !.first = walls]
    /\ UNCHANGED <<nrows, ncols>>

\* an iteration of the second run: the draw is the one of the tape while the
\* runs have asked for the same draws, and any index afterwards
TwiceSecond(i) ==
    /\ pc = "prim_second"
    /\ i \in 1 .. Cardinality(loc.walls)
    /\ \E t \in tuple_of(loc.walls) :
          LET k == loc.drawn + 1
              replayed == loc.in_sync /\ k <= Len(loc.tape) /\ loc.tape[k][1] = Len(t)
              r == prim_iteration(walls, loc.visited, loc.walls, t[i])
          IN /\ replayed => i = loc.tape[k][2]
             /\ walls' = r.walls
             /\ mod_count' = mod_count + r.carved
             /\ loc' = [loc EXCEPT !.visited = r.visited, !.walls = r.frontier,
                                   !.drawn = k, !.in_sync = replayed]
    /\ UNCHANGED <<nrows, ncols, pc>>

\* the second run returns
TwiceFinish ==
    /\ pc = "prim_second"
    /\ loc.walls = {}
    /\ pc' = "done"
    /\ UNCHANGED <<nrows, ncols, walls, mod_count, loc>>

NextTwice ==
    \/ \E seed \in rand_cell : TwiceStart(seed)
    \/ \E i \in 1 .. (2 * MaxCellsTwice) : TwiceFirst(i)
    \/ TwiceAgain
    \/ \E i \in 1 .. (2 * MaxCellsTwice) : TwiceSecond(i)
    \/ TwiceFinish

InitTwice == InitGen(MaxCellsTwice)

SpecTwice == InitTwice /\ [][NextTwice]_vars

\* C11: determinism.  Two runs of a generator with the same (random_seed,
\* nrows, ncols), each through apply_gen on a Maze constructed with that seed,
\* end with the same North and West wall sets; stated here for PrimGenerate.
C11_SameSeedSameWalls == pc = "done" => walls = loc.first

-----------------------------------------------------------------------------
(* The solvers (src/amaze/solver.py).  A solver runs on a finished maze: a  *)
(* walled maze with a set P of interior walls broken, and Maze.start_cell   *)
(* and Maze.end_cell at cells of the grid (both are assignable fields);     *)
(* loc.start_cell and loc.end_cell hold them.  A run starts at              *)
(* pc = "solve", ends at pc = "done" when solve returns and at              *)
(* pc = "raised" when an assertion fails.                                   *)

\* the walls set_walls can change, one name per physical wall
InteriorWalls == {w \in AllCells \X {"NORTH", "WEST"} : Maze_contains(next_cell(w))}

\* the maze after reset(True) and set_walls(*P, is_present=False)
InitMazeWith(d, P) ==
    /\ nrows = d[1]
    /\ ncols = d[2]
    /\ walls = [s \in {"NORTH", "WEST"} |->
                  (0 .. (d[1] * d[2] - 1))
                      \ {w[1][1] * d[2] + w[1][2] : w \in {v \in P : v[2] = s}}]
    /\ mod_count = Cardinality(P)

\* an open passage joins the neighbours a and b
passage_between(a, b) == \E s \in SideSet : next(a, s) = b /\ has_wall(Wall(a, s)) = FALSE

(* DfsSolver *)

MaxCellsDfsSolver == 6

Heuristics == {"ManhattanDistance", "NoHeuristic", "ShuffleHeuristic"}

Abs(x) == IF x < 0 THEN -x ELSE x

\* ManhattanDistance.manhattan
manhattan(c1, c2) == Abs(c2[1] - c1[1]) + Abs(c1[2] - c2[2])

RECURSIVE best_by_loop(_, _, _, _)
\* the loop of best_by from the i-th wall on; best is <<>> for None, or
\* <<best_cost, best_i>> with best_i counted from 1
best_by_loop(target, ws, i, best) ==
    IF i > Len(ws) THEN best
    ELSE LET cost == manhattan(next_cell(ws[i]), target)
         IN IF best = <<>> \/ best[1] = 0 \/ best[1] > cost
            THEN best_by_loop(target, ws, i + 1, <<cost, i>>)
            ELSE best_by_loop(target, ws, i + 1, best)

\* best_by(...)[2], counted from 1
best_i(target, ws) == best_by_loop(target, ws, 1, <<>>)[2]

\* Heuristic.pick_path: the indices (from 1) of the walls it can pop
pick_path(heuristic, target, ws) ==
    CASE heuristic = "ManhattanDistance" -> {best_i(target, ws)}
      [] heuristic = "NoHeuristic" -> {Len(ws)}
      [] heuristic = "ShuffleHeuristic" -> 1 .. Len(ws)

RECURSIVE unwind(_, _)
\* the backtracking loop of lines 119-128: the stack left and the walls found
unwind(stack, visited) ==
    IF Len(stack) = 0 THEN [stack |-> stack, walls |-> <<>>]
    ELSE LET others == stack[Len(stack)][2]
             ws == SelectSeq(others, LAMBDA w : ~CellSet_contains(visited, next_cell(w)))
             rest == SubSeq(stack, 1, Len(stack) - 1)
         IN IF Len(ws) = 0 THEN unwind(rest, visited)
            ELSE [stack |-> rest, walls |-> ws]

\* solve up to its loop
DfsSolveStart ==
    /\ pc = "solve"
    /\ pc' = "dfs_solve"
    /\ loc' = loc @@ [visited |-> new_cell_set(FALSE), stack |-> <<>>,
                      cell |-> loc.start_cell]
    /\ UNCHANGED <<nrows, ncols, walls, mod_count>>

\* lines 133-135 with the other walls of the junction forgotten
dfs_move_no_others(visited, stack, ws, i) ==
    [loc EXCEPT !.visited = visited,
                !.stack = Append(stack, <<ws[i], <<>>>>),
                !.cell = next_cell(ws[i])]

\* lines 133-135 on the walls ws and the stack given
dfs_move(visited, stack, ws, i) ==
    [loc EXCEPT !.visited = visited,
                !.stack = Append(stack, <<ws[i], RemoveAt(ws, i)>>),
                !.cell = next_cell(ws[i])]

\* an iteration on a cell with a passage to an unvisited cell
DfsSolveAdvance(i) ==
    /\ pc = "dfs_solve"
    /\ loc.cell # loc.end_cell
    /\ LET visited == CellSet_setitem(loc.visited, loc.cell, TRUE)
           ws == walls_around(loc.cell, {}, TRUE, visited)
       IN /\ Len(ws) > 0
          /\ i \in pick_path(loc.heuristic, loc.end_cell, ws)
          /\ loc' = dfs_move(visited, loc.stack, ws, i)
    /\ UNCHANGED <<nrows, ncols, walls, mod_count, pc>>

\* an iteration on a cell without one: the stack is unwound to the last
\* junction with an unvisited alternative; the assertion fails when there is none
DfsSolveBacktrack(i) ==
    /\ pc = "dfs_solve"
    /\ loc.cell # loc.end_cell
    /\ LET visited == CellSet_setitem(loc.visited, loc.cell, TRUE)
           ws == walls_around(loc.cell, {}, TRUE, visited)
           u == unwind(loc.stack, visited)
       IN /\ Len(ws) = 0
          /\ IF Len(u.walls) = 0
             THEN /\ i = 1
                  /\ pc' = "raised"
                  /\ loc' = [loc EXCEPT !.visited = visited, !.stack = u.stack]
             ELSE /\ i \in pick_path(loc.heuristic, loc.end_cell, u.walls)
                  /\ pc' = pc
                  /\ loc' = dfs_move(visited, u.stack, u.walls, i)
    /\ UNCHANGED <<nrows, ncols, walls, mod_count>>

\* the loop ends at end_cell
DfsSolveFinish ==
    /\ pc = "dfs_solve"
    /\ loc.cell = loc.end_cell
    /\ pc' = "done"
    /\ UNCHANGED <<nrows, ncols, walls, mod_count, loc>>

NextDfsSolver ==
    \/ DfsSolveStart
    \/ \E i \in 1 .. 4 : DfsSolveAdvance(i)
    \/ \E i \in 1 .. 4 : DfsSolveBacktrack(i)
    \/ DfsSolveFinish

\* every connected maze, any two cells as start and end, each heuristic
InitDfsSolver ==
    /\ \E d \in Dims(MaxCellsDfsSolver) :
         \E P \in SUBSET {w \in ((0 .. (d[1] - 1)) \X (0 .. (d[2] - 1))) \X {"NORTH", "WEST"} :
                            (w[2] = "NORTH" /\ w[1][1] > 0) \/ (w[2] = "WEST" /\ w[1][2] > 0)} :
            InitMazeWith(d, P)
    /\ AllConnected
    /\ pc = "solve"
    /\ \E a \in AllCells, b \in AllCells, h \in Heuristics :
          loc = [start_cell |-> a, end_cell |-> b, heuristic |-> h]

SpecDfsSolver == InitDfsSolver /\ [][NextDfsSolver]_vars /\ WF_vars(NextDfsSolver)

\* the walls kept on the stack, bottom to top
stack_walls == [k \in 1 .. Len(loc.stack) |-> loc.stack[k][1]]

\* the cells a list of walls passes, from the cell of the first wall
path_cells(ws) == {ws[k][1] : k \in 1 .. Len(ws)} \cup {next_cell(ws[k]) : k \in 1 .. Len(ws)}

\* a list of walls is a path from a to b over open passages that repeats no cell
IsSimplePath(ws, a, b) ==
    /\ IF Len(ws) = 0 THEN a = b
       ELSE ws[1][1] = a /\ next_cell(ws[Len(ws)]) = b
    /\ \A k \in 1 .. (Len(ws) - 1) : next_cell(ws[k]) = ws[k + 1][1]
    /\ \A k \in 1 .. Len(ws) :
          Maze_contains(ws[k][1]) /\ Maze_contains(next_cell(ws[k])) /\ has_wall(ws[k]) = FALSE
    /\ Len(ws) > 0 => Cardinality(path_cells(ws)) = Len(ws) + 1

\* C12: on every connected maze and for each heuristic (Manhattan, none,
\* shuffle), DfsSolver.solve terminates without failing the "Unreachable end
\* cell" assertion, and at termination the walls kept on its stack, read
\* bottom to top, form a path from start_cell to end_cell in which every step
\* crosses an open passage and no cell is repeated.
C12_DfsSolverPath ==
    /\ [](pc # "raised")
    /\ [](pc = "done" => IsSimplePath(stack_walls, loc.start_cell, loc.end_cell))
    /\ <>(pc = "done")

\* a finished run with the shuffle heuristic on a maze with a cycle, that
\* backtracked: a visited cell is off the path of three walls it returns
C12_Witness ==
    /\ pc = "done"
    /\ loc.heuristic = "ShuffleHeuristic"
    /\ Cardinality(OpenPassages) >= num_cells
    /\ Len(loc.stack) = 3
    /\ Cardinality(loc.visited) > 3

-----------------------------------------------------------------------------
(* AStarSolver.  g_score, f_score and came_from are dicts: here functions   *)
(* on all cells, with Infty (the default of every get) and <<>> for the     *)
(* cells without an entry.  open_set is the set of the pairs <<f, cell>> in *)
(* the queue: no pair is put twice.                                         *)

MaxRowsAStar == 2
MaxColsAStar == 5

\* stands for 2 ** 10_000: larger than the cost of any path
Infty == 1000000

\* the heuristic h of solve
h_score(c) == manhattan(loc.end_cell, c)

\* edge_weight without the test of the wall
edge_weight_unwalled(wall) == 1

\* edge_weight
edge_weight(wall) == IF has_wall(wall) = FALSE THEN 1 ELSE Infty

\* tuple order of the queue entries <<f, <<row, col>>>>
entry_less(a, b) ==
    \/ a[1] < b[1]
    \/ a[1] = b[1] /\ a[2][1] < b[2][1]
    \/ a[1] = b[1] /\ a[2][1] = b[2][1] /\ a[2][2] < b[2][2]

\* the entry PriorityQueue.get returns
queue_get(open_set) == CHOOSE a \in open_set : \A b \in open_set \ {a} : entry_less(a, b)

\* is_not_in_open_set answering True for every cell
is_not_in_open_set_always(open_set, cell) == TRUE

\* is_not_in_open_set
is_not_in_open_set(open_set, cell) == \A e \in open_set : e[2] # cell

RECURSIVE relax(_, _, _, _)
\* the loop over the walls of cur (lines 353-365), from the i-th wall on,
\* on the record q of came_from, g_score, f_score and open_set
relax(q, cur, ws, i) ==
    IF i > Len(ws) THEN q
    ELSE LET wall == ws[i]
             neighbor == next_cell(wall)
             tentative_g_score == q.g_score[cur] + edge_weight(wall)
         IN IF tentative_g_score < q.g_score[neighbor]
            THEN LET f == tentative_g_score + h_score(neighbor)
                 IN relax([came_from |-> [q.came_from EXCEPT ![neighbor] = wall],
                           g_score |-> [q.g_score EXCEPT ![neighbor] = tentative_g_score],
                           f_score |-> [q.f_score EXCEPT ![neighbor] = f],
                           open_set |-> IF is_not_in_open_set(q.open_set, neighbor)
                                        THEN q.open_set \cup {<<f, neighbor>>}
                                        ELSE q.open_set],
                          cur, ws, i + 1)
            ELSE relax(q, cur, ws, i + 1)

RECURSIVE paint_path(_, _)
\* paint_path: the walls painted BEST_PATH, from current back to a cell
\* without an entry in came_from
paint_path(came_from, current) ==
    IF came_from[current] = <<>> THEN <<>>
    ELSE <<came_from[current]>> \o paint_path(came_from, came_from[current][1])

\* solve up to its loop
AStarStart ==
    /\ pc = "solve"
    /\ pc' = "astar"
    /\ loc' = loc @@ [came_from |-> [c \in AllCells |-> <<>>],
                      g_score |-> [c \in AllCells |-> IF c = loc.start_cell THEN 0 ELSE Infty],
                      f_score |-> [c \in AllCells |->
                                      IF c = loc.start_cell THEN h_score(c) ELSE Infty],
                      open_set |-> {<<h_score(loc.start_cell), loc.start_cell>>},
                      painted |-> <<>>]
    /\ UNCHANGED <<nrows, ncols, walls, mod_count>>

\* an iteration that gets a cell other than end_cell
AStarExpand ==
    /\ pc = "astar"
    /\ loc.open_set # {}
    /\ LET e == queue_get(loc.open_set)
           cur == e[2]
           q == relax([came_from |-> loc.came_from, g_score |-> loc.g_score,
                       f_score |-> loc.f_score, open_set |-> loc.open_set \ {e}],
                      cur, walls_around(cur, {}, FALSE, {}), 1)
       IN /\ cur # loc.end_cell
          /\ loc' = [loc EXCEPT !.came_from = q.came_from, !.g_score = q.g_score,
                                !.f_score = q.f_score, !.open_set = q.open_set]
    /\ UNCHANGED <<nrows, ncols, walls, mod_count, pc>>

\* the iteration that gets end_cell: the path is painted and solve returns
AStarFound ==
    /\ pc = "astar"
    /\ loc.open_set # {}
    /\ LET e == queue_get(loc.open_set)
       IN /\ e[2] = loc.end_cell
          /\ loc' = [loc EXCEPT !.open_set = @ \ {e},
                                !.painted = paint_path(loc.came_from, e[2])]
    /\ pc' = "done"
    /\ UNCHANGED <<nrows, ncols, walls, mod_count>>

\* the queue is empty: solve raises as the other solvers do
AStarExhaustedRaising ==
    /\ pc = "astar"
    /\ loc.open_set = {}
    /\ pc' = "raised"
    /\ UNCHANGED <<nrows, ncols, walls, mod_count, loc>>

\* the queue is empty: solve returns without a path
AStarExhausted ==
    /\ pc = "astar"
    /\ loc.open_set = {}
    /\ pc' = "done"
    /\ UNCHANGED <<nrows, ncols, walls, mod_count, loc>>

NextAStar ==
    \/ AStarStart
    \/ AStarExpand
    \/ AStarFound
    \/ AStarExhausted

\* every maze of every grid within the bounds; start_cell and end_cell are
\* the two corners of the constructor, either way round
InitAStar ==
    /\ \E d \in (1 .. MaxRowsAStar) \X (1 .. MaxColsAStar) :
         \E P \in SUBSET {w \in ((0 .. (d[1] - 1)) \X (0 .. (d[2] - 1))) \X {"NORTH", "WEST"} :
                            (w[2] = "NORTH" /\ w[1][1] > 0) \/ (w[2] = "WEST" /\ w[1][2] > 0)} :
            InitMazeWith(d, P)
    /\ pc = "solve"
    /\ \E swap \in BOOLEAN :
          loc = [start_cell |-> IF swap THEN end_cell ELSE start_cell,
                 end_cell |-> IF swap THEN start_cell ELSE end_cell]

SpecAStar == InitAStar /\ [][NextAStar]_vars

RECURSIVE bfs_distance(_, _, _)
\* the length of a shortest path over open passages from the cells S, which
\* are k steps from the start, to the cell b (-1 when there is none)
bfs_distance(S, b, k) ==
    IF b \in S THEN k
    ELSE IF Step(S) \subseteq S THEN -1
    ELSE bfs_distance(S \cup Step(S), b, k + 1)

\* C13: on any maze in which end_cell is reachable from start_cell, the
\* number of walls on the path AStarSolver paints from end_cell back to
\* start_cell equals the shortest-path distance between the two cells, as an
\* independent breadth-first search over the open passages computes it.
C13_AStarShortest ==
    (pc = "done" /\ loc.end_cell \in Reach({loc.start_cell}))
        => Len(loc.painted) = bfs_distance({loc.start_cell}, loc.end_cell, 0)

-----------------------------------------------------------------------------
(* DeadEndFillingSolver.  filled is the CellSet DfsSolver.solve receives as *)
(* visited: loc.visited holds it from the start.                            *)

MaxCellsDeadEnd == 9

\* is_dead_end without the tests of start_cell and end_cell
is_leaf(c, ws) == Len(ws) = 1

\* is_dead_end
is_dead_end(c, ws) == c # loc.end_cell /\ c # loc.start_cell /\ Len(ws) = 1

\* the scan of lines 263-268: the dead ends, each with its walls
dead_ends(filled) ==
    LET cells == all_cells(Cell(0, 0))
        unfilled == SelectSeq(cells, LAMBDA c : ~CellSet_contains(filled, c))
        scanned == [k \in 1 .. Len(unfilled) |->
                      <<unfilled[k], walls_around(unfilled[k], {}, TRUE, filled)>>]
    IN SelectSeq(scanned, LAMBDA e : is_dead_end(e[1], e[2]))

RECURSIVE fill_up(_, _, _)
\* the loop of lines 275-284 on the dead end c with its walls ws
fill_up(filled, c, ws) ==
    IF is_dead_end(c, ws)
    THEN LET f == CellSet_setitem(filled, c, TRUE)
         IN fill_up(f, next_cell(ws[1]), walls_around(next_cell(ws[1]), {}, TRUE, f))
    ELSE filled

RECURSIVE fill_all(_, _, _)
\* the loop of line 273 over the dead ends found, from the i-th on
fill_all(filled, ends, i) ==
    IF i > Len(ends) THEN filled
    ELSE fill_all(fill_up(filled, ends[i][1], ends[i][2]), ends, i + 1)

\* solve up to its loop
DeadEndStart ==
    /\ pc = "solve"
    /\ pc' = "dead_end"
    /\ loc' = loc @@ [visited |-> new_cell_set(FALSE)]
    /\ UNCHANGED <<nrows, ncols, walls, mod_count>>

\* an iteration of the fill loop that finds dead ends
DeadEndFill ==
    /\ pc = "dead_end"
    /\ LET ends == dead_ends(loc.visited)
       IN /\ Len(ends) > 0
          /\ loc' = [loc EXCEPT !.visited = fill_all(@, ends, 1)]
    /\ UNCHANGED <<nrows, ncols, walls, mod_count, pc>>

\* the iteration that finds none: the loop ends and DfsSolver.solve is called
\* with NoHeuristic and visited = filled
DeadEndTrace ==
    /\ pc = "dead_end"
    /\ Len(dead_ends(loc.visited)) = 0
    /\ pc' = "dfs_solve"
    /\ loc' = loc @@ [heuristic |-> "NoHeuristic", stack |-> <<>>, cell |-> loc.start_cell]
    /\ UNCHANGED <<nrows, ncols, walls, mod_count>>

NextDeadEnd ==
    \/ DeadEndStart
    \/ DeadEndFill
    \/ DeadEndTrace
    \/ \E i \in 1 .. 4 : DfsSolveAdvance(i)
    \/ \E i \in 1 .. 4 : DfsSolveBacktrack(i)
    \/ DfsSolveFinish

\* every connected maze, any two cells as start and end
InitDeadEnd ==
    /\ \E d \in Dims(MaxCellsDeadEnd) :
         \E P \in SUBSET {w \in ((0 .. (d[1] - 1)) \X (0 .. (d[2] - 1))) \X {"NORTH", "WEST"} :
                            (w[2] = "NORTH" /\ w[1][1] > 0) \/ (w[2] = "WEST" /\ w[1][2] > 0)} :
            InitMazeWith(d, P)
    /\ AllConnected
    /\ pc = "solve"
    /\ \E a \in AllCells, b \in AllCells : loc = [start_cell |-> a, end_cell |-> b]

SpecDeadEnd == InitDeadEnd /\ [][NextDeadEnd]_vars

\* the cells of the shortest paths between a and b; in a tree, the cells of
\* the one simple path between them
cells_between(a, b) ==
    LET d == bfs_distance({a}, b, 0)
    IN {c \in AllCells : bfs_distance({a}, c, 0) + bfs_distance({c}, b, 0) = d}

\* the fill loop has ended and DfsSolver.solve has not yet moved: filled is
\* as the loop left it
FillLoopEnded == pc = "dfs_solve" /\ loc.stack = <<>> /\ loc.cell = loc.start_cell

\* C14: on every spanning-tree maze and for any start_cell and end_cell,
\* when the fill loop of DeadEndFillingSolver ends, the set of cells not in
\* filled is exactly the set of cells on the unique simple path between
\* start_cell and end_cell.
C14_DeadEndFilling ==
    (FillLoopEnded /\ Cardinality(OpenPassages) = num_cells - 1 /\ SpanningTree)
        => AllCells \ {c \in AllCells : CellSet_contains(loc.visited, c)}
              = cells_between(loc.start_cell, loc.end_cell)

\* the fill loop has just ended on a 3x3 spanning tree, between two cells
\* that are not corners, with four cells filled and five left
C14_Witness ==
    /\ FillLoopEnded
    /\ nrows = 3 /\ ncols = 3
    /\ SpanningTree
    /\ loc.start_cell = Cell(0, 1) /\ loc.end_cell = Cell(2, 1)
    /\ Cardinality(loc.visited) = 4

\* ------------------------------------------------------------------------
\* BfsSolver.solve

MaxCellsBfs == 6

\* lines 166-177 with the next level put in front of the current one at
\* every iteration
frontier_stacked(queue, queue2) == <<queue2 \o queue, <<>>>>

\* lines 166-177: the two queues after the swap that happens when the current
\* level is exhausted
frontier(queue, queue2) ==
    IF Len(queue) = 0 THEN <<queue2, <<>>>> ELSE <<queue, queue2>>

\* lines 166-182 on the visited set and queues given: the assertion, the
\* swap, the pop and the move, then the test of the loop
bfs_dequeue(visited, queue, queue2) ==
    IF Len(queue) = 0 /\ Len(queue2) = 0
    THEN /\ pc' = "raised"
         /\ loc' = [loc EXCEPT !.visited = visited]
    ELSE LET f == frontier(queue, queue2)
             next_wall == Head(f[1])
         IN /\ loc' = [loc EXCEPT !.visited = visited,
                                  !.queue = Tail(f[1]),
                                  !.queue2 = f[2],
                                  !.cell = next_cell(next_wall)]
            /\ pc' = IF next_cell(next_wall) = loc.end_cell THEN "done" ELSE "bfs"

\* solve up to the first test of its loop
BfsStart ==
    /\ pc = "solve"
    /\ pc' = IF loc.start_cell = loc.end_cell THEN "done" ELSE "bfs"
    /\ loc' = loc @@ [visited |-> new_cell_set(FALSE), queue |-> <<>>,
                      queue2 |-> <<>>, cell |-> loc.start_cell]
    /\ UNCHANGED <<nrows, ncols, walls, mod_count>>

\* an iteration on a cell not yet visited
BfsExpand ==
    /\ pc = "bfs"
    /\ ~CellSet_contains(loc.visited, loc.cell)
    /\ LET visited == CellSet_setitem(loc.visited, loc.cell, TRUE)
           found == walls_around(loc.cell, {}, TRUE, visited)
       IN bfs_dequeue(visited, loc.queue, loc.queue2 \o found)
    /\ UNCHANGED <<nrows, ncols, walls, mod_count>>

\* an iteration on a cell visited before
BfsSkip ==
    /\ pc = "bfs"
    /\ CellSet_contains(loc.visited, loc.cell)
    /\ bfs_dequeue(loc.visited, loc.queue, loc.queue2)
    /\ UNCHANGED <<nrows, ncols, walls, mod_count>>

NextBfs ==
    \/ BfsStart
    \/ BfsExpand
    \/ BfsSkip

\* every maze, connected or not, any two cells as start and end
InitBfs ==
    /\ \E d \in Dims(MaxCellsBfs) :
         \E P \in SUBSET {w \in ((0 .. (d[1] - 1)) \X (0 .. (d[2] - 1))) \X {"NORTH", "WEST"} :
                            (w[2] = "NORTH" /\ w[1][1] > 0) \/ (w[2] = "WEST" /\ w[1][2] > 0)} :
            InitMazeWith(d, P)
    /\ pc = "solve"
    /\ \E a \in AllCells, b \in AllCells : loc = [start_cell |-> a, end_cell |-> b]

SpecBfs == InitBfs /\ [][NextBfs]_vars

\* the graph distance of the cell c from start_cell
from_start(c) == bfs_distance({loc.start_cell}, c, 0)

\* the cells in the visited set vs
visited_cells(vs) == {c \in AllCells : CellSet_contains(vs, c)}

\* a step that marks a cell visited marks one at least as far from start_cell
\* as every cell marked before
VisitsFarther ==
    pc = "bfs" =>
        \A c \in visited_cells(loc'.visited) \ visited_cells(loc.visited) :
            \A v \in visited_cells(loc.visited) : from_start(v) <= from_start(c)

\* the step whose dequeued wall leads to end_cell is the last one
StopsAtEnd ==
    pc = "bfs" /\ loc'.cell = loc.end_cell => pc' = "done"

\* C15: BfsSolver marks cells visited in monotonically non-decreasing graph
\* distance (over open passages) from start_cell, and it stops the instant a
\* dequeued wall leads to end_cell, visiting no further cell afterwards.
C15_BfsLevelOrder ==
    /\ [][VisitsFarther /\ StopsAtEnd]_vars
    /\ [][pc # "done"]_vars
    /\ [](pc = "done" => loc.cell = loc.end_cell /\ ~CellSet_contains(loc.visited, loc.end_cell))

\* the search has ended on a 2x3 maze with a cycle, from the cell in the
\* middle of the top row to the cell below it, three steps away round the
\* wall between them, after it has visited cells at distance 0, 1 and 2
C15_Witness ==
    /\ pc = "done"
    /\ nrows = 2 /\ ncols = 3
    /\ Cardinality(OpenPassages) >= num_cells
    /\ loc.start_cell = Cell(0, 1) /\ loc.end_cell = Cell(1, 1)
    /\ from_start(loc.end_cell) = 3
    /\ Cardinality(visited_cells(loc.visited)) >= 4

\* C16: during BfsSolver.solve on any maze (with or without cycles), each
\* cell is enqueued at most once: no cell is the next_cell of more than one
\* wall ever appended to the two frontier queues.  A wall that has been
\* popped leads to a cell that is visited before the next walls are appended
\* and walls to visited cells are never appended, so two such walls are
\* together in the queues at the step that appends the second.
C16_EnqueuedOnce ==
    pc \in {"bfs", "done"} =>
        LET q == loc.queue \o loc.queue2
        IN \A i \in 1 .. Len(q) : \A j \in 1 .. Len(q) :
              i # j => next_cell(q[i]) # next_cell(q[j])


\* ------------------------------------------------------------------------
\* HandRuleSolver.solve

MaxCellsHandRule == 6

num_sides == 4

\* lines 214-219: the sides in the order of preference when looking north
sides(right_hand) ==
    IF right_hand THEN <<"EAST", "NORTH", "WEST", "SOUTH">>
    ELSE <<"WEST", "NORTH", "EAST", "SOUTH">>

\* lines 216 and 219 with the two tables exchanged
orientation_map_exchanged(right_hand) ==
    IF right_hand THEN [NORTH |-> 0, EAST |-> 1, SOUTH |-> 2, WEST |-> 3]
    ELSE [NORTH |-> 0, EAST |-> 3, SOUTH |-> 2, WEST |-> 1]

\* lines 214-219: the index in sides of the preferred side after a move
orientation_map(right_hand) ==
    IF right_hand THEN [NORTH |-> 0, EAST |-> 3, SOUTH |-> 2, WEST |-> 1]
    ELSE [NORTH |-> 0, EAST |-> 1, SOUTH |-> 2, WEST |-> 3]

\* the side tried at the i-th turn of the loop of line 228
next_side(right_hand, orientation, i) ==
    sides(right_hand)[((orientation + i) % num_sides) + 1]

\* line 231 with every side taken for free
is_free_always(right_hand, cell, orientation, i) == TRUE

\* the test of line 231 at the i-th turn of the loop of line 228
is_free(right_hand, cell, orientation, i) ==
    has_wall(Wall(cell, next_side(right_hand, orientation, i))) = FALSE

\* the loop of line 228 can break
free_turns(right_hand, cell, orientation) ==
    \E i \in 0 .. (num_sides - 1) : is_free(right_hand, cell, orientation, i)

\* the turn at which the loop of line 228 ends: the first free one, or the
\* last one when no side is free
last_turn(right_hand, cell, orientation) ==
    IF is_free(right_hand, cell, orientation, 0) THEN 0
    ELSE IF is_free(right_hand, cell, orientation, 1) THEN 1
    ELSE IF is_free(right_hand, cell, orientation, 2) THEN 2
    ELSE num_sides - 1

\* solve up to the first test of its loop
HandRuleStart ==
    /\ pc = "solve"
    /\ pc' = IF loc.start_cell = loc.end_cell THEN "done" ELSE "hand_rule"
    /\ loc' = loc @@ [cell |-> loc.start_cell, num_step |-> (loc.start_cell :> 1),
                      orientation |-> 0, path_len |-> 0]
    /\ UNCHANGED <<nrows, ncols, walls, mod_count>>

\* lines 227-245: the locals after an iteration of the loop from the cell,
\* which is in the grid
hand_step(right_hand, from, orientation, num_step, path_len) ==
    LET i == last_turn(right_hand, from, orientation)
        side == next_side(right_hand, orientation, i)
        cell == next(from, side)
        c == IF cell \in DOMAIN num_step THEN num_step[cell] ELSE 0
    IN [cell |-> cell,
        orientation |-> IF free_turns(right_hand, from, orientation)
                        THEN orientation_map(right_hand)[side] ELSE orientation,
        num_step |-> (cell :> (c + 1)) @@ num_step,
        path_len |-> path_len + 1]

\* an iteration of the loop of line 225; has_wall raises when the last move
\* has left the grid
HandRuleStep ==
    /\ pc = "hand_rule"
    /\ loc' = IF ~Maze_contains(loc.cell) THEN loc
              ELSE hand_step(loc.right_hand, loc.cell, loc.orientation,
                             loc.num_step, loc.path_len)
                   @@ [start_cell |-> loc.start_cell, end_cell |-> loc.end_cell,
                       right_hand |-> loc.right_hand]
    /\ pc' = IF ~Maze_contains(loc.cell) THEN "raised"
             ELSE IF loc'.cell = loc.end_cell THEN "done" ELSE "hand_rule"
    /\ UNCHANGED <<nrows, ncols, walls, mod_count>>

NextHandRule ==
    \/ HandRuleStart
    \/ HandRuleStep

\* every spanning tree, any two cells as start and end, either rule
InitHandRule ==
    /\ \E d \in Dims(MaxCellsHandRule) :
         \E P \in SUBSET {w \in ((0 .. (d[1] - 1)) \X (0 .. (d[2] - 1))) \X {"NORTH", "WEST"} :
                            (w[2] = "NORTH" /\ w[1][1] > 0) \/ (w[2] = "WEST" /\ w[1][2] > 0)} :
            /\ Cardinality(P) = d[1] * d[2] - 1
            /\ InitMazeWith(d, P)
    /\ AllConnected
    /\ pc = "solve"
    /\ \E a \in AllCells, b \in AllCells, r \in BOOLEAN :
          loc = [start_cell |-> a, end_cell |-> b, right_hand |-> r]

\* the loop runs on until its test fails
SpecHandRule == InitHandRule /\ [][NextHandRule]_vars /\ WF_vars(NextHandRule)

\* a step of the loop moves to a neighbour across an open passage
MovesAcrossPassage ==
    pc = "hand_rule" =>
        /\ pc' # "raised"
        /\ passage_between(loc.cell, loc'.cell)

\* C17: on every spanning-tree maze, for any start_cell and end_cell and for
\* both the right-hand and the left-hand rule, HandRuleSolver only ever moves
\* across open passages and eventually reaches end_cell (the solve loop
\* terminates).
C17_HandRuleReachesEnd ==
    /\ [][MovesAcrossPassage]_vars
    /\ <>(pc = "done" /\ loc.cell = loc.end_cell)

\* the left-hand rule has ended on a 2x3 tree after a walk that stepped on
\* some cell three times and was longer than the number of cells
C17_Witness ==
    /\ pc = "done"
    /\ nrows = 2 /\ ncols = 3
    /\ ~loc.right_hand
    /\ loc.cell = loc.end_cell
    /\ loc.path_len > num_cells
    /\ \E c \in DOMAIN loc.num_step : loc.num_step[c] = 3


\* ------------------------------------------------------------------------
\* A maze is constructed, one of the generators is applied to it, or none,
\* and one of the solvers is run on the result.

MaxCellsOne == 6

\* the moves the wall follower is followed for; on a maze with a cycle it can
\* walk round for ever
MaxPathLen == 12

\* BlankGen under apply_gen: the walls are cleared and generate does nothing
BlankGenerate ==
    /\ pc = "apply_gen"
    /\ walls' = reset(FALSE)
    /\ pc' = "done"
    /\ UNCHANGED <<nrows, ncols, mod_count, loc>>

\* the SolverAlgo classes of solver.py with the arguments their constructors
\* take
Solvers ==
    {[solver |-> "DfsSolver", heuristic |-> h] : h \in Heuristics}
        \cup {[solver |-> "HandRuleSolver", right_hand |-> r] : r \in BOOLEAN}
        \cup {[solver |-> s] :
                 s \in {"NoSolver", "BfsSolver", "AStarSolver", "DeadEndFillingSolver"}}

\* NoSolver.solve: pass
NoSolverSolve ==
    /\ pc = "solve"
    /\ loc.solver = "NoSolver"
    /\ pc' = "done"
    /\ UNCHANGED <<nrows, ncols, walls, mod_count, loc>>

\* the locals of solve when it is entered on the maze, whose start_cell and
\* end_cell are those of the constructor
enter_solve(s) ==
    s @@ [start_cell |-> start_cell, end_cell |-> end_cell]

\* the solver s is run on the maze the generator has left
SolveGenerated(s) ==
    /\ pc = "done"
    /\ "solver" \notin DOMAIN loc
    /\ pc' = "solve"
    /\ loc' = enter_solve(s)
    /\ UNCHANGED <<nrows, ncols, walls, mod_count>>

\* the solver s is run on the maze as constructed, all walls set
SolveWalled(s) ==
    /\ pc = "apply_gen"
    /\ pc' = "solve"
    /\ loc' = enter_solve(s)
    /\ UNCHANGED <<nrows, ncols, walls, mod_count>>

NextOne ==
    \/ pc \in {"apply_gen", "dfs"} /\ NextDfs
    \/ pc \in {"apply_gen", "wilson_outer", "wilson_walk", "wilson_commit"} /\ NextWilson
    \/ pc \in {"apply_gen", "prim"} /\ NextPrim
    \/ pc \in {"apply_gen", "kruskal"} /\ NextKruskal
    \/ pc \in {"apply_gen", "eller_east", "eller_south", "eller_last"} /\ NextEller
    \/ pc \in {"apply_gen", "division"} /\ NextDivision
    \/ pc \in {"apply_gen", "sidewinder"} /\ NextSidewinder
    \/ BlankGenerate
    \/ \E s \in Solvers : SolveGenerated(s)
    \/ \E s \in Solvers : SolveWalled(s)
    \/ NoSolverSolve
    \/ pc = "solve" /\ loc.solver = "DfsSolver" /\ DfsSolveStart
    \/ pc = "dfs_solve" /\ \E i \in 1 .. 4 : DfsSolveAdvance(i)
    \/ pc = "dfs_solve" /\ \E i \in 1 .. 4 : DfsSolveBacktrack(i)
    \/ DfsSolveFinish
    \/ pc = "solve" /\ loc.solver = "BfsSolver" /\ BfsStart
    \/ BfsExpand
    \/ BfsSkip
    \/ pc = "solve" /\ loc.solver = "AStarSolver" /\ AStarStart
    \/ AStarExpand
    \/ AStarFound
    \/ AStarExhausted
    \/ pc = "solve" /\ loc.solver = "HandRuleSolver" /\ HandRuleStart
    \/ pc = "hand_rule" /\ loc.path_len < MaxPathLen /\ HandRuleStep
    \/ pc = "solve" /\ loc.solver = "DeadEndFillingSolver" /\ DeadEndStart
    \/ DeadEndFill
    \/ DeadEndTrace

InitOne == InitGen(MaxCellsOne)

\* every loop that can run on runs on
SpecOne == InitOne /\ [][NextOne]_vars /\ WF_vars(NextOne)

\* the grid has one cell
OneCell == nrows = 1 /\ ncols = 1

\* a solver has returned
Solved == pc = "done" /\ "solver" \in DOMAIN loc

\* the solver that has returned made no move
ZeroMoves ==
    CASE loc.solver = "NoSolver" -> "cell" \notin DOMAIN loc
      [] loc.solver \in {"DfsSolver", "DeadEndFillingSolver"} ->
            loc.stack = <<>> /\ loc.cell = loc.start_cell
      [] loc.solver = "BfsSolver" ->
            loc.queue = <<>> /\ loc.queue2 = <<>> /\ loc.cell = loc.start_cell
      [] loc.solver = "AStarSolver" -> loc.painted = <<>>
      [] loc.solver = "HandRuleSolver" ->
            loc.path_len = 0 /\ loc.cell = loc.start_cell

\* C18: for nrows=1, ncols=1: start_cell == end_cell == (0,0), no interior
\* passage exists after any generator, every generator terminates without
\* error, and every solver (DFS with each heuristic, BFS, A*, wall follower,
\* dead-end filling) terminates having taken zero moves (path length 0).
C18_OneCell ==
    /\ [](OneCell => /\ start_cell = Cell(0, 0) /\ end_cell = Cell(0, 0)
                     /\ OpenPassages = {}
                     /\ pc # "raised"
                     /\ (pc = "solve" => loc.start_cell = loc.end_cell)
                     /\ (Solved => ZeroMoves))
    /\ (OneCell => <>Solved)

\* the dead-end filler has returned on a grid of one cell that a generator
\* left with its walls set
C18_Witness ==
    /\ OneCell
    /\ Solved
    /\ loc.solver = "DeadEndFillingSolver"
    /\ walls = reset(TRUE)


\* ------------------------------------------------------------------------
\* DfsSolver.solve run twice on one maze.  ManhattanDistance and NoHeuristic
\* draw nothing; ShuffleHeuristic draws from the generator made by its own
\* constructor, Random(x=seed) with seed None unless the caller gives one
\* (lines 82-83), which the seed of the maze does not determine: each draw of
\* either run is any index.

MaxCellsSolveTwice == 6

\* solve has returned for the first time: the same solver is run again on the
\* same maze, the outcome of the first run being kept for comparison
SolveAgain ==
    /\ pc = "done"
    /\ "first" \notin DOMAIN loc
    /\ pc' = "solve"
    /\ loc' = [start_cell |-> loc.start_cell, end_cell |-> loc.end_cell,
               heuristic |-> loc.heuristic,
               first |-> [stack |-> loc.stack, visited |-> loc.visited]]
    /\ UNCHANGED <<nrows, ncols, walls, mod_count>>

NextSolveTwice ==
    \/ DfsSolveStart
    \/ \E i \in 1 .. 4 : DfsSolveAdvance(i)
    \/ \E i \in 1 .. 4 : DfsSolveBacktrack(i)
    \/ DfsSolveFinish
    \/ SolveAgain

\* every connected maze, start_cell and end_cell as the constructor sets
\* them, each heuristic
InitSolveTwice ==
    /\ \E d \in Dims(MaxCellsSolveTwice) :
         \E P \in SUBSET {w \in ((0 .. (d[1] - 1)) \X (0 .. (d[2] - 1))) \X {"NORTH", "WEST"} :
                            (w[2] = "NORTH" /\ w[1][1] > 0) \/ (w[2] = "WEST" /\ w[1][2] > 0)} :
            InitMazeWith(d, P)
    /\ AllConnected
    /\ pc = "solve"
    /\ \E h \in Heuristics :
          loc = [start_cell |-> start_cell, end_cell |-> end_cell, heuristic |-> h]

SpecSolveTwice == InitSolveTwice /\ [][NextSolveTwice]_vars

\* C19: solving draws its randomness exclusively from the Maze's seeded
\* generator: for two runs with the same (seed, generator, solver,
\* dimensions), every solver, including DfsSolver with ShuffleHeuristic,
\* visits the same sequence of cells and ends with the same path.  Two runs
\* that visit the same sequence of cells end with the same set of visited
\* cells and the same stack, which is what is compared here.
C19_SameSolve ==
    (pc = "done" /\ "first" \in DOMAIN loc) =>
        /\ loc.stack = loc.first.stack
        /\ loc.visited = loc.first.visited


\* ------------------------------------------------------------------------
\* The frame of set_walls

\* the same physical wall named from the neighbour
alias(wall) == Wall(next_cell(wall), opp_table[wall[2]])

\* the step of set_walls' loop for one wall, whose cell is in the grid
SetWallsStep == pc = "set_walls" /\ pc' = "set_walls" /\ loc'.i = loc.i + 1

\* the step writes the wall and its alias and no other wall of the grid, or
\* nothing at all when the neighbour is outside the grid
SetWallsFrame ==
    SetWallsStep =>
        IF Maze_contains(next_cell(loc'.wall))
        THEN /\ has_wall_in(walls', loc'.wall) = loc.is_present
             /\ has_wall_in(walls', alias(loc'.wall)) = loc.is_present
             /\ \A v \in (AllCells \X SideSet) \ {loc'.wall, alias(loc'.wall)} :
                    has_wall_in(walls', v) = has_wall(v)
        ELSE walls' = walls

\* the step that raises for a wall whose cell is outside the grid writes
\* nothing either
SetWallsRaiseFrame ==
    (pc = "set_walls" /\ pc' = "maze" /\ loc'.raised) => walls' = walls

\* C20: set_walls(w, is_present=b) for a wall w whose cell and neighbour are
\* both in the grid makes has_wall(w) and has_wall of its alias on the
\* neighbour equal to b and leaves has_wall unchanged for every other
\* physical wall; for a wall whose neighbour is outside the grid it changes
\* no wall bit at all.
C20_SetWallsFrame == [][SetWallsFrame /\ SetWallsRaiseFrame]_vars

\* a South wall between two cells of a 2x2 grid has just been set while
\* another wall between two cells is down and a third one stands
C20_Witness ==
    /\ JustSet /\ loc.is_present
    /\ nrows = 2 /\ ncols = 2
    /\ loc.wall[2] = "SOUTH" /\ Maze_contains(next_cell(loc.wall))
    /\ has_wall(loc.wall) = TRUE
    /\ \E v \in AllCells \X {"NORTH", "WEST"} :
          Maze_contains(next_cell(v)) /\ has_wall(v) = FALSE
    /\ \E v \in (AllCells \X {"NORTH", "WEST"}) \ {alias(loc.wall)} :
          Maze_contains(next_cell(v)) /\ has_wall(v) = TRUE


\* ------------------------------------------------------------------------
\* ManhattanDistance.pick_path on any list of candidate walls

MaxCellsPick == 6

\* the lists of n distinct walls of the cell c that lead to cells of the grid
candidates(c, n) ==
    {ws \in [1 .. n -> {w \in {c} \X SideSet : Maze_contains(next_cell(w))}] :
        \A i \in 1 .. n, j \in 1 .. n : i # j => ws[i] # ws[j]}

\* pick_path is called with the list loc.walls; it pops the wall it returns
PickPath ==
    /\ pc = "pick_path"
    /\ \E i \in pick_path("ManhattanDistance", loc.end_cell, loc.walls) :
          loc' = loc @@ [picked |-> loc.walls[i], rest |-> RemoveAt(loc.walls, i), i |-> i]
    /\ pc' = "done"
    /\ UNCHANGED <<nrows, ncols, walls, mod_count>>

NextPick == PickPath

\* any grid, any end_cell, any cell and any non-empty list of its walls
InitPick ==
    /\ \E d \in Dims(MaxCellsPick) : MazeInit(d)
    /\ pc = "pick_path"
    /\ \E e \in AllCells, c \in AllCells, n \in 1 .. 4 :
          \E ws \in candidates(c, n) : loc = [end_cell |-> e, cell |-> c, walls |-> ws]

SpecPick == InitPick /\ [][NextPick]_vars

\* C21: ManhattanDistance.pick_path returns, among the candidate walls, a
\* wall whose next_cell has the minimum Manhattan distance to end_cell, and on
\* ties the first such wall in list order; this holds for every candidate
\* list, including lists in which some candidate's next_cell is end_cell
\* itself (distance 0).  The returned remainder is the candidate list minus
\* that wall.
C21_PicksNearest ==
    (pc = "done" /\ "picked" \in DOMAIN loc /\ "walls" \in DOMAIN loc) =>
        LET dist(k) == manhattan(next_cell(loc.walls[k]), loc.end_cell)
        IN /\ loc.picked = loc.walls[loc.i]
           /\ \A k \in 1 .. Len(loc.walls) : dist(loc.i) <= dist(k)
           /\ \A k \in 1 .. (loc.i - 1) : dist(k) > dist(loc.i)
           /\ loc.rest = RemoveAt(loc.walls, loc.i)


\* ------------------------------------------------------------------------
\* The loop erasure of WilsonGenerate

\* a step of the walk that erased a loop: every other step of the walk makes
\* the path longer
ErasedLoop ==
    /\ pc = "wilson_walk" /\ pc' \in {"wilson_walk", "wilson_commit"}
    /\ Len(loc'.path) <= Len(loc.path)

\* the cells in_path holds for the start cell and the path given
cells_on_path(path_start, path) ==
    {position_of(path_start)} \cup {position_of(next_cell(path[k])) : k \in 1 .. Len(path)}

\* the step went onto a cell X of the current path and truncated the path
\* back to X
TruncatedBack ==
    ErasedLoop =>
        \E k \in 1 .. Len(neighbors) :
            LET X == next_cell(neighbors[k])
            IN /\ CellSet_contains(loc.in_path, X)
               /\ loc'.cur_cell = X
               /\ loc'.path = SubSeq(loc.path, 1, Len(loc'.path))
               /\ IF X = loc.path_start THEN loc'.path = <<>>
                  ELSE next_cell(loc'.path[Len(loc'.path)]) = X
               /\ loc'.in_path = cells_on_path(loc.path_start, loc'.path)

\* C22: in WilsonGenerate, when the random walk steps onto a cell X that is
\* already in the current path, the path is truncated back to X: immediately
\* afterwards the walk's current cell is X, the recorded path is the prefix
\* of the old path that ends at X, and in_path contains exactly path_start
\* plus the cells reached by the remaining path walls; this also holds when X
\* is the path's own start (the path becomes empty and the current cell is
\* path_start).
C22_LoopErasure == [][TruncatedBack]_vars



\* ---------------------------------------------------------------------------
\* C23: the order in which the wall follower tries the sides
\* ---------------------------------------------------------------------------

\* the side on the right hand of a walker facing s
right_of(s) ==
    [NORTH |-> "EAST", EAST |-> "SOUTH", SOUTH |-> "WEST", WEST |-> "NORTH"][s]

\* the side behind a walker facing s
back_of(s) == right_of(right_of(s))

\* the side on the left hand of a walker facing s
left_of(s) == right_of(back_of(s))

\* the order of the rule for a walker facing s
anchored(right_hand, s) ==
    IF right_hand THEN <<right_of(s), s, left_of(s), back_of(s)>>
    ELSE <<left_of(s), s, right_of(s), back_of(s)>>

\* the sides in the order in which the loop of line 228 tries them
tried(l) ==
    [i \in 1 .. num_sides |-> next_side(l.right_hand, l.orientation, i - 1)]

\* an iteration of the loop of line 225 has moved the walker
HandMoved ==
    /\ pc = "hand_rule"
    /\ pc' \in {"hand_rule", "done"}
    /\ loc'.path_len = loc.path_len + 1

\* the walker has moved through the first side without a wall of the order
\* anchored to the side s, and now faces the side moved through
FollowsRule(s) ==
    /\ tried(loc) = anchored(loc.right_hand, s)
    /\ \E k \in 1 .. num_sides :
          LET m == tried(loc)[k]
          IN /\ ~has_wall(Wall(loc.cell, m))
             /\ \A j \in 1 .. (k - 1) : has_wall(Wall(loc.cell, tried(loc)[j]))
             /\ loc'.cell = next(loc.cell, m)
             /\ tried(loc') = anchored(loc.right_hand, m)

\* C23: at every step the wall follower tries the four sides in the order
\* right, straight, left, back (right-hand rule) or left, straight, right,
\* back (left-hand rule) of the side it last moved through, North before the
\* first move; it moves through the first side without a wall, and that side
\* is the one the order of the next step is anchored to.
C23_HandRuleOrder ==
    [][HandMoved =>
          /\ loc.path_len = 0 => FollowsRule("NORTH")
          /\ \E s \in SideSet : FollowsRule(s)]_vars

\* the right-hand walker, facing East after a move, finds a wall on its right
\* and in front and turns left
C23_Witness ==
    /\ pc = "hand_rule"
    /\ loc.right_hand
    /\ loc.path_len > 0
    /\ tried(loc) = anchored(TRUE, "EAST")
    /\ has_wall(Wall(loc.cell, "SOUTH"))
    /\ has_wall(Wall(loc.cell, "EAST"))
    /\ ~has_wall(Wall(loc.cell, "NORTH"))

\* ---------------------------------------------------------------------------
\* C24: the entries of the open queue of AStarSolver
\* ---------------------------------------------------------------------------

\* no cell has two entries in the queue
OneEntryPerCell(open_set) ==
    \A a, b \in open_set : a[2] = b[2] => a = b

\* an iteration of the loop of line 346 that relaxes the walls of a cell
Relaxed == pc = "astar" /\ pc' = "astar" /\ loc' # loc

\* the entries the iteration has pushed are for cells without an entry left
\* in the queue after the get of line 347
PushedWhenAbsent ==
    LET left == loc.open_set \ {queue_get(loc.open_set)}
    IN \A n \in loc'.open_set \ left : \A o \in left : o[2] # n[2]

\* the score of neighbor has improved
Improved(neighbor) ==
    /\ loc'.g_score[neighbor] < loc.g_score[neighbor]
    /\ loc'.came_from[neighbor] # loc.came_from[neighbor]

\* C24: at every step of AStarSolver.solve no cell appears in more than one
\* entry of the open queue: a neighbour whose score improves is pushed only
\* when the queue holds no entry for it.
C24_OpenSetEntries ==
    [][(pc' \in {"astar", "done"} => OneEntryPerCell(loc'.open_set))
       /\ (Relaxed => PushedWhenAbsent)
       /\ (Relaxed => \A c \in AllCells :
              (Improved(c) /\ ~is_not_in_open_set(loc.open_set, c))
                 => {e \in loc'.open_set : e[2] = c}
                       = {e \in loc.open_set : e[2] = c})]_vars

\* the score of a cell has improved while the queue held an entry for it: the
\* entry is still the only one, with the score it was pushed with
C24_Witness ==
    /\ pc = "astar"
    /\ \E e \in loc.open_set :
          /\ loc.f_score[e[2]] < e[1]
          /\ \A o \in loc.open_set : o[2] = e[2] => o = e

\* ---------------------------------------------------------------------------
\* C25: the path came_from records when AStarSolver gets end_cell
\* ---------------------------------------------------------------------------

RECURSIVE came_from_chain(_, _, _)
\* the walls met when following came_from backward from current, at most k
\* of them
came_from_chain(came_from, current, k) ==
    IF k = 0 \/ came_from[current] = <<>> THEN <<>>
    ELSE <<came_from[current]>>
            \o came_from_chain(came_from, came_from[current][1], k - 1)

\* the iteration that gets end_cell from the queue
GotEnd == pc = "astar" /\ pc' = "done" /\ loc.open_set # {}

\* following came_from from end_cell leads to start_cell over open passages
\* and through no cell twice
LeadsBack ==
    LET chain == came_from_chain(loc.came_from, loc.end_cell, Cardinality(AllCells))
        n == Len(chain)
    IN /\ n < Cardinality(AllCells)
       /\ IF n = 0 THEN loc.end_cell = loc.start_cell
          ELSE /\ next_cell(chain[1]) = loc.end_cell
               /\ chain[n][1] = loc.start_cell
               /\ \A k \in 1 .. (n - 1) : next_cell(chain[k + 1]) = chain[k][1]
       /\ \A k \in 1 .. n : has_wall(chain[k]) = FALSE
       /\ \A j, k \in 1 .. n : j # k => chain[j][1] # chain[k][1]
       /\ \A k \in 1 .. n : chain[k][1] # loc.end_cell
       /\ loc'.painted = chain

\* came_from holds no wall that is present and no entry for start_cell
OnlyPassagesRecorded(came_from) ==
    /\ came_from[loc.start_cell] = <<>>
    /\ \A c \in AllCells :
          came_from[c] # <<>> =>
             has_wall(came_from[c]) = FALSE /\ next_cell(came_from[c]) = c

\* C25: when AStarSolver gets end_cell from the queue, following came_from
\* backward from end_cell reaches start_cell after finitely many steps, every
\* wall followed is an open passage (a walled edge is never recorded in
\* came_from), no cell is repeated, and start_cell never gets an entry in
\* came_from.
C25_CameFromPath ==
    [][(GotEnd => LeadsBack)
       /\ (pc' \in {"astar", "done"} => OnlyPassagesRecorded(loc'.came_from))]_vars

\* end_cell was got from the queue and came_from leads back over three walls
\* or more, in a maze where a wall that is present lies beside the path
C25_Witness ==
    /\ pc = "done"
    /\ Len(loc.painted) >= 3
    /\ loc.painted[Len(loc.painted)][1] = loc.start_cell
    /\ \E k \in 1 .. Len(loc.painted), side \in SideSet :
          /\ Maze_contains(next(loc.painted[k][1], side))
          /\ has_wall(Wall(loc.painted[k][1], side))

\* ---------------------------------------------------------------------------
\* C26: the union-find of Kruskal and Eller under any sequence of calls
\* ---------------------------------------------------------------------------

MaxNodes == 4

Nodes == 0 .. (MaxNodes - 1)

\* a call of root() on node a
CallRoot(a) ==
    /\ pc = "union_find"
    /\ LET q == root(loc.roots, a)
       IN loc' = [loc EXCEPT !.roots = q.roots, !.op = "root", !.a = a, !.b = a,
                             !.r = q.r, !.answer = FALSE,
                             !.to_update = to_update(loc.roots, a)]
    /\ UNCHANGED <<nrows, ncols, walls, mod_count, pc>>

\* a call of a.is_connected(b) that answers True, or whose caller does not
\* connect the nodes
CallIsConnected(a, b) ==
    /\ pc = "union_find"
    /\ LET q == is_connected(loc.roots, a, b)
       IN loc' = [loc EXCEPT !.roots = q.roots, !.op = "is_connected", !.a = a,
                             !.b = b, !.r = a, !.answer = q.connected,
                             !.to_update = {}]
    /\ UNCHANGED <<nrows, ncols, walls, mod_count, pc>>

\* a.is_connected(b) answers False and the caller calls a.connect(b), as
\* KruskalGenerate (lines 445-446) and EllerGen do; joined records the classes
\* of the nodes joined by connect calls, each named by its least node
CallConnect(a, b) ==
    /\ pc = "union_find"
    /\ LET q == is_connected(loc.roots, a, b)
       IN /\ ~q.connected
          /\ loc' = [loc EXCEPT
                       !.roots = connect(q.roots, a, b), !.op = "connect",
                       !.a = a, !.b = b, !.r = a, !.answer = FALSE,
                       !.to_update = {},
                       !.joined = [n \in Nodes |->
                                     IF loc.joined[n] \in {loc.joined[a], loc.joined[b]}
                                     THEN Min({loc.joined[a], loc.joined[b]})
                                     ELSE loc.joined[n]]]
    /\ UNCHANGED <<nrows, ncols, walls, mod_count, pc>>

NextUnionFind ==
    \/ \E a \in Nodes : CallRoot(a)
    \/ \E a, b \in Nodes : CallIsConnected(a, b)
    \/ \E a, b \in Nodes : CallConnect(a, b)

\* every node is constructed as its own root (line 399)
InitUnionFind ==
    /\ MazeInit(<<1, 1>>)
    /\ pc = "union_find"
    /\ loc = [roots |-> [n \in Nodes |-> n], joined |-> [n \in Nodes |-> n],
              op |-> "init", a |-> 0, b |-> 0, r |-> 0, answer |-> FALSE,
              to_update |-> {}]

SpecUnionFind == InitUnionFind /\ [][NextUnionFind]_vars

RECURSIVE climb(_, _, _)
\* the node reached from k after n steps up the __root fields
climb(roots, k, n) == IF n = 0 THEN k ELSE climb(roots, roots[k], n - 1)

\* the only cycles of the __root fields are the self-references of the roots
NoCycle(roots) ==
    \A k \in Nodes : LET top == climb(roots, k, MaxNodes - 1) IN roots[top] = top

\* is_connected answers True exactly for the nodes joined by connect calls
ExactlyJoined(l) ==
    \A x, y \in Nodes :
       is_connected(l.roots, x, y).connected = (l.joined[x] = l.joined[y])

\* the step is a call of root() on a node: every node on the way from the
\* node to its root, the node itself included, now points at the root found
Compressed ==
    (pc = "union_find" /\ loc'.op = "root" /\ loc' # loc) =>
       LET visited == {climb(loc.roots, loc'.a, n) : n \in 0 .. (MaxNodes - 1)}
       IN /\ loc'.r \in visited
          /\ loc.roots[loc'.r] = loc'.r
          /\ \A v \in visited : loc'.roots[v] = loc'.r
          /\ \A n \in Nodes \ visited : loc'.roots[n] = loc.roots[n]

\* C26: after any sequence of connect(a, b) calls, each made when
\* is_connected(a, b) was false, the parent pointers have no cycle other than
\* a root's self-reference, is_connected(x, y) is true exactly when x and y
\* were joined by a chain of connect calls, and a call of root() leaves every
\* node it visited pointing directly at the root it found.
C26_UnionFind ==
    [][(pc' = "union_find" => NoCycle(loc'.roots) /\ ExactlyJoined(loc'))
       /\ Compressed]_vars

\* root() was called on a node two links or more below its root, after
\* connect calls: the node and its former parent both point at the root
C26_Witness ==
    /\ pc = "union_find"
    /\ loc.op = "root"
    /\ Cardinality(loc.to_update) >= 2
    /\ \A m \in loc.to_update : loc.roots[m] = loc.r
    /\ \E n \in Nodes : loc.joined[n] # loc.joined[loc.a]

\* ---------------------------------------------------------------------------
\* C27: the south steps of EllerGen
\* ---------------------------------------------------------------------------

\* the cells of the current row
CurrentRow == {c \in AllCells : c[1] = loc.row}

\* a south step on a component that is not done yet (line 556 holds)
SouthProcessed ==
    /\ pc = "eller_south"
    /\ loc.col < ncols
    /\ loc'.done_cc # loc.done_cc

\* the list a south step on the current column samples from
cells_in_row == loc.lists[loc.cells[loc.cur_row[loc.col + 1]]]

\* the cells of the current row joined to the cell of the current column
ComponentInRow == Reach({Cell(loc.row, loc.col)}) \cap CurrentRow

\* the south walls the step has carved
Carved == {c \in AllCells : has_wall(Wall(c, "SOUTH")) = TRUE
                            /\ has_wall(Wall(c, "SOUTH"))' = FALSE}

\* the list sampled is not empty and holds cells of the current row and of the
\* component only; the component was not processed before in this row; the
\* step does not raise and carves a south wall of the component, in this row
SouthStepSound ==
    /\ cells_in_row # <<>>
    /\ \A k \in 1 .. Len(cells_in_row) : cells_in_row[k] \in ComponentInRow
    /\ \A c \in ComponentInRow : has_wall(Wall(c, "SOUTH")) = TRUE
    /\ pc' = "eller_south"
    /\ Carved # {}
    /\ Carved \subseteq ComponentInRow

\* the south steps of a row are over: every cell of the row is joined to a
\* cell of the row whose south wall is carved
SouthStepsOver == pc = "eller_south" /\ loc.col = ncols

EveryComponentCarved ==
    \A c \in CurrentRow :
       \E d \in Reach({c}) \cap CurrentRow : has_wall(Wall(d, "SOUTH")) = FALSE

\* C27: whenever EllerGen processes a component in the south-carving phase of
\* a row that is not the last, the cells_in_row list it samples from is not
\* empty and holds only cells of the current row that belong to the
\* component, so that random.randint(1, len) does not fail; every live
\* component is processed exactly once per row and carves at least one south
\* wall; no south wall of a cell of an earlier row is ever carved.
C27_EllerSouth ==
    [][/\ SouthProcessed => SouthStepSound
       /\ SouthStepsOver => EveryComponentCarved
       /\ pc \in {"eller_east", "eller_south", "eller_last"}
             => Carved \subseteq (IF pc = "eller_south" THEN CurrentRow ELSE {})]_vars

\* on a row after the first, a component of two cells of the row or more has
\* been processed and one of its cells has kept its south wall
C27_Witness ==
    /\ pc = "eller_south"
    /\ loc.row >= 1
    /\ loc.done_cc # {}
    /\ \E c, d \in CurrentRow :
          /\ c # d
          /\ d \in Reach({c})
          /\ has_wall(Wall(c, "SOUTH")) = FALSE
          /\ has_wall(Wall(d, "SOUTH")) = TRUE

\* ---------------------------------------------------------------------------
\* C28: the fill phase of DeadEndFillingSolver, one filled cell at a time
\* ---------------------------------------------------------------------------

MaxCellsFill == 6

\* solve up to the first scan
FillStart ==
    /\ pc = "solve"
    /\ pc' = "fill_scan"
    /\ loc' = [start_cell |-> loc.start_cell, end_cell |-> loc.end_cell,
               visited |-> new_cell_set(FALSE), scanned |-> {},
               ends |-> <<>>, i |-> 0, c |-> loc.start_cell, ws |-> <<>>]
    /\ UNCHANGED <<nrows, ncols, walls, mod_count>>

\* the scan of lines 263-268 finds dead ends: the loop of line 273 starts on
\* the first of them
FillScan ==
    /\ pc = "fill_scan"
    /\ LET ends == dead_ends(loc.visited)
       IN /\ Len(ends) > 0
          /\ loc' = [loc EXCEPT !.scanned = loc.visited, !.ends = ends, !.i = 1,
                                !.c = ends[1][1], !.ws = ends[1][2]]
    /\ pc' = "fill_up"
    /\ UNCHANGED <<nrows, ncols, walls, mod_count>>

\* the scan finds no dead end: the loop of line 258 ends (line 271)
FillEnd ==
    /\ pc = "fill_scan"
    /\ Len(dead_ends(loc.visited)) = 0
    /\ pc' = "filled"
    /\ UNCHANGED <<nrows, ncols, walls, mod_count, loc>>

\* an iteration of the loop of line 275: c is filled and the loop moves on
\* to the cell behind its one wall
FillCell ==
    /\ pc = "fill_up"
    /\ is_dead_end(loc.c, loc.ws)
    /\ loc' = [loc EXCEPT
                 !.visited = CellSet_setitem(@, loc.c, TRUE),
                 !.c = next_cell(loc.ws[1]),
                 !.ws = walls_around(next_cell(loc.ws[1]), {}, TRUE,
                                     CellSet_setitem(loc.visited, loc.c, TRUE))]
    /\ UNCHANGED <<nrows, ncols, walls, mod_count, pc>>

\* the test of line 275 fails: the loop of line 273 takes the next dead end
\* of the scan, with the walls the scan found, or ends
FillNext ==
    /\ pc = "fill_up"
    /\ ~is_dead_end(loc.c, loc.ws)
    /\ IF loc.i < Len(loc.ends)
       THEN /\ loc' = [loc EXCEPT !.i = @ + 1, !.c = loc.ends[loc.i + 1][1],
                                  !.ws = loc.ends[loc.i + 1][2]]
            /\ pc' = "fill_up"
       ELSE /\ loc' = loc
            /\ pc' = "fill_scan"
    /\ UNCHANGED <<nrows, ncols, walls, mod_count>>

NextFill ==
    \/ FillStart
    \/ FillScan
    \/ FillEnd
    \/ FillCell
    \/ FillNext

\* every maze of every grid within the bound, connected or not, any two
\* cells as start and end
InitFill ==
    /\ \E d \in Dims(MaxCellsFill) :
         \E P \in SUBSET {w \in ((0 .. (d[1] - 1)) \X (0 .. (d[2] - 1))) \X {"NORTH", "WEST"} :
                            (w[2] = "NORTH" /\ w[1][1] > 0) \/ (w[2] = "WEST" /\ w[1][2] > 0)} :
            InitMazeWith(d, P)
    /\ pc = "solve"
    /\ \E a \in AllCells, b \in AllCells : loc = [start_cell |-> a, end_cell |-> b]

\* the loop runs on until it ends
SpecFill == InitFill /\ [][NextFill]_vars /\ WF_vars(NextFill)

\* the neighbours of c behind an open passage that are not in filled
open_unfilled(filled, c) ==
    {n \in AllCells : passage_between(c, n) /\ ~CellSet_contains(filled, n)}

\* the step fills a cell
Fills == pc = "fill_up" /\ loc'.visited # loc.visited

\* the cell filled was not filled before, is neither start_cell nor end_cell
\* and has exactly one open neighbour that is not filled
FillsDeadEnd ==
    /\ loc'.visited = loc.visited \cup {position_of(loc.c)}
    /\ ~CellSet_contains(loc.visited, loc.c)
    /\ loc.c # loc.start_cell /\ loc.c # loc.end_cell
    /\ Cardinality(open_unfilled(loc.visited, loc.c)) = 1

\* the pass ends: it has filled a cell
PassEnds == pc = "fill_up" /\ pc' = "fill_scan"

\* a cell that is not filled is a dead end
SomeDeadEnd ==
    \E c \in AllCells \ {loc.start_cell, loc.end_cell} :
       ~CellSet_contains(loc.visited, c)
       /\ Cardinality(open_unfilled(loc.visited, c)) = 1

\* C28: the fill phase of DeadEndFillingSolver terminates on every maze:
\* each pass whose scan finds a dead end adds at least one new cell to
\* filled, the phase ends at the first scan that finds none, a filled cell
\* had exactly one open unfilled neighbour at the moment it was filled, and
\* start_cell and end_cell are never filled.
C28_FillPhase ==
    /\ <>(pc = "filled")
    /\ [][/\ Fills => FillsDeadEnd
          /\ PassEnds => loc.visited # loc.scanned /\ loc.scanned \subseteq loc.visited
          /\ pc = "fill_scan" => (pc' = "filled" <=> ~SomeDeadEnd)]_vars

\* ---------------------------------------------------------------------------
\* C29: the resumed scan of WilsonGenerate
\* ---------------------------------------------------------------------------

\* the cells before c in row-major order
preceding(c) == {d \in AllCells : position_of(d) < position_of(c)}

\* every cell before last_cell is in in_maze
ScanPassedOnlyMaze(l) ==
    \A d \in preceding(l.last_cell) : CellSet_contains(l.in_maze, d)

\* c is the first cell of the whole grid that is not in in_maze
FirstNotInMaze(c, in_maze) ==
    /\ c \in AllCells
    /\ ~CellSet_contains(in_maze, c)
    /\ \A d \in preceding(c) : CellSet_contains(in_maze, d)

\* a call of random_not_in_maze
ScanCalled == pc = "wilson_outer" /\ pc' # pc

\* the call returns the first cell of the grid outside in_maze, and None
\* exactly when there is no such cell
ScanReturnsFirst ==
    IF \A d \in AllCells : CellSet_contains(loc.in_maze, d)
    THEN pc' = "done"
    ELSE /\ pc' = "wilson_walk"
         /\ FirstNotInMaze(loc'.cur_cell, loc.in_maze)
         /\ loc'.last_cell = loc'.cur_cell

\* C29: the resumed scan random_not_in_maze of WilsonGenerate never skips an
\* unvisited cell: at every call every cell before last_cell in row-major
\* order is in in_maze, so that the cell returned is the first cell of the
\* whole grid that is not in in_maze, and None is returned only when every
\* cell of the grid is in in_maze.
C29_ResumedScan ==
    [][/\ pc' \in {"wilson_outer", "wilson_walk", "wilson_commit", "done"}
             => ScanPassedOnlyMaze(loc')
       /\ ScanCalled => ScanPassedOnlyMaze(loc) /\ ScanReturnsFirst]_vars

\* a call has resumed the scan from a cell other than the first and returned
\* a later cell, with a cell of the maze after it
C29_Witness ==
    /\ pc = "wilson_walk"
    /\ loc.path = <<>>
    /\ loc.cur_cell = loc.last_cell
    /\ position_of(loc.last_cell) >= 3
    /\ Cardinality(loc.in_maze) < position_of(loc.last_cell) + 2
    /\ \E d \in AllCells : position_of(d) > position_of(loc.last_cell)
                           /\ CellSet_contains(loc.in_maze, d)

\* ---------------------------------------------------------------------------
\* C30: AStarSolver, DfsSolver and BfsSolver on one maze, whose end_cell may
\* be out of reach
\* ---------------------------------------------------------------------------

MaxCellsSearch == 6

\* the three solvers that search for end_cell, with their constructor
\* arguments
SearchSolvers ==
    {s \in Solvers : s.solver \in {"DfsSolver", "BfsSolver", "AStarSolver"}}

NextSearch ==
    \/ pc = "solve" /\ loc.solver = "DfsSolver" /\ DfsSolveStart
    \/ pc = "dfs_solve" /\ \E i \in 1 .. 4 : DfsSolveAdvance(i)
    \/ pc = "dfs_solve" /\ \E i \in 1 .. 4 : DfsSolveBacktrack(i)
    \/ DfsSolveFinish
    \/ pc = "solve" /\ loc.solver = "BfsSolver" /\ BfsStart
    \/ BfsExpand
    \/ BfsSkip
    \/ pc = "solve" /\ loc.solver = "AStarSolver" /\ AStarStart
    \/ AStarExpand
    \/ AStarFound
    \/ AStarExhausted

\* every maze of every grid within the bound, connected or not; start_cell
\* and end_cell are the two corners of the constructor, either way round
InitSearch ==
    /\ \E d \in Dims(MaxCellsSearch) :
         \E P \in SUBSET {w \in ((0 .. (d[1] - 1)) \X (0 .. (d[2] - 1))) \X {"NORTH", "WEST"} :
                            (w[2] = "NORTH" /\ w[1][1] > 0) \/ (w[2] = "WEST" /\ w[1][2] > 0)} :
            InitMazeWith(d, P)
    /\ pc = "solve"
    /\ \E s \in SearchSolvers, swap \in BOOLEAN :
          loc = s @@ [start_cell |-> IF swap THEN end_cell ELSE start_cell,
                      end_cell |-> IF swap THEN start_cell ELSE end_cell]

\* every loop that can run on runs on
SpecSearch == InitSearch /\ [][NextSearch]_vars /\ WF_vars(NextSearch)

\* no path of open passages leads from start_cell to end_cell
Unreachable == loc.end_cell \notin Reach({loc.start_cell})

\* C30: when end_cell is not reachable from start_cell through open
\* passages, AStarSolver.solve terminates normally once the open set is
\* empty, without an error and without painting a path, whereas DfsSolver and
\* BfsSolver fail their "Unreachable end cell" assertion on the same maze.
C30_UnreachableEnd ==
    /\ [](Unreachable =>
             IF loc.solver = "AStarSolver"
             THEN /\ pc # "raised"
                  /\ pc = "done" => loc.open_set = {} /\ loc.painted = <<>>
             ELSE pc # "done")
    /\ <>(Unreachable =>
             pc = IF loc.solver = "AStarSolver" THEN "done" ELSE "raised")

\* AStarSolver has returned on a maze where it has reached cells beyond
\* start_cell, and end_cell is out of reach
C30_Witness ==
    /\ pc = "done"
    /\ loc.solver = "AStarSolver"
    /\ Unreachable
    /\ Cardinality(Reach({loc.start_cell})) >= 3
    /\ \A c \in Reach({loc.start_cell}) : loc.g_score[c] < Infty
=============================================================================
